---- MODULE Spec2Model ----
(***************************************************************************)
(* Links processor of the deepcrawl v0 worker (links.processor.ts):        *)
(* processLinksRequest, its tree pipeline and processNonTreeRequest,       *)
(* together with the KV cache they read and write.                          *)
(*                                                                         *)
(* A URL is a path below one origin: a sequence of segment numbers, <<>>   *)
(* being the origin itself.  Segment numbers stand for segment names and   *)
(* their numeric order for the alphabetical order of the names.            *)
(* Timestamps are readings of a logical clock that advances once per       *)
(* request.                                                                *)
(***************************************************************************)
EXTENDS Integers, Sequences, FiniteSets, TLC

\* ------------------------------------------------------------------ bounds
MaxRequests == 2
MAX_KIN_LIMIT == 3
MaxLinks == 3
MaxItems == 3
MaxConcurrency == 2
MaxRetries == 2
MaxKeys == 2
MaxCalls == 3

\* ------------------------------------------------------------- URL universe
Origin == <<>>
Urls == {<<>>, <<1>>, <<2>>, <<1, 1>>, <<1, 2>>, <<2, 1>>, <<1, 1, 1>>}

IsPrefix(p, q) == Len(p) <= Len(q) /\ SubSeq(q, 1, Len(p)) = p
IsStrictPrefix(p, q) == Len(p) < Len(q) /\ IsPrefix(p, q)
Parent(u) == SubSeq(u, 1, Len(u) - 1)
Name(u) == u[Len(u)]

RECURSIVE PathLess(_, _)
PathLess(p, q) ==
  IF p = <<>> THEN q # <<>>
  ELSE IF q = <<>> THEN FALSE
  ELSE IF Head(p) # Head(q) THEN Head(p) < Head(q)
  ELSE PathLess(Tail(p), Tail(q))

\* depth ascending, then lexicographic
KinLess(p, q) == Len(p) < Len(q) \/ (Len(p) = Len(q) /\ PathLess(p, q))

RECURSIVE SetToSortedSeq(_)
SetToSortedSeq(S) ==
  IF S = {} THEN <<>>
  ELSE LET m == CHOOSE x \in S : \A y \in S \ {x} : KinLess(x, y)
       IN <<m>> \o SetToSortedSeq(S \ {m})

Range(s) == {s[i] : i \in DOMAIN s}
TakeM(s, n) == s
Take(s, n) == SubSeq(s, 1, IF Len(s) < n THEN Len(s) ELSE n)

\* append the elements of s that are not yet in acc, in order (a JS Set)
RECURSIVE AddAll(_, _)
AddAll(acc, s) ==
  IF s = <<>> THEN acc
  ELSE AddAll(IF Head(s) \in Range(acc) THEN acc ELSE Append(acc, Head(s)), Tail(s))

\* ------------------------------------------------------------- LinkService
getAncestorPaths(target) == [i \in 1..Len(target) |-> SubSeq(target, 1, i - 1)]

getDescendantPaths(target, candidates) ==
  SetToSortedSeq({u \in candidates : IsStrictPrefix(target, u)})

\* the internal bucket of a page: its links in page order, first occurrence kept;
\* in platform mode only the links below the root (the target) are internal
extractLinksFromHtml(links, rootUrl, isPlatformUrl) ==
  AddAll(<<>>, SelectSeq(links, LAMBDA u : ~isPlatformUrl \/ IsPrefix(rootUrl, u)))

mergeLinks(extracted, internal) == AddAll(internal, extracted)

setToArrayOrUndefined(s) == IF s = <<>> THEN <<>> ELSE <<s>>

\* ---------------------------------------------------------------- LinksTree
\* A tree is its root URL, the ordered children of every node, the lastVisited
\* stamp of every node (0: none) and the sets of nodes that carry cleanedHtml
\* and extractedLinks.
NewTree(rootUrl) ==
  [root |-> rootUrl, kids |-> (rootUrl :> <<>>), lv |-> (rootUrl :> 0),
   html |-> {}, ext |-> {}]

Nodes(t) == DOMAIN t.kids

AddNode(t, u) ==
  [t EXCEPT !.kids = [((u :> <<>>) @@ t.kids) EXCEPT ![Parent(u)] = Append(@, u)],
            !.lv = (u :> 0) @@ t.lv]

\* the child node with the cumulative prefix p: found, or created
FindOrCreateM(t, p) == AddNode(t, p)
FindOrCreate(t, p) == IF p \in Nodes(t) THEN t ELSE AddNode(t, p)

\* walk the segments of u below the root, find-or-create a node per prefix
RECURSIVE InsertFrom(_, _, _)
InsertFrom(t, u, k) ==
  IF k > Len(u) THEN t
  ELSE LET p == SubSeq(u, 1, k)
       IN InsertFrom(FindOrCreate(t, p), u, k + 1)

InsertUrl(t, u) ==
  IF IsStrictPrefix(t.root, u) THEN InsertFrom(t, u, Len(t.root) + 1) ELSE t

RECURSIVE InsertAll(_, _)
InsertAll(t, s) == IF s = <<>> THEN t ELSE InsertAll(InsertUrl(t, Head(s)), Tail(s))

Max(a, b) == IF a < b THEN b ELSE a

\* lastVisited, cleanedHtml and extractedLinks of the maps go to the nodes they
\* name; values already on a node are kept when the maps have none
AttachContent(t, visited, cleanedHtmlCache, extractedLinksMap, includeExtractedLinks) ==
  [t EXCEPT !.lv = [n \in Nodes(t) |-> Max(t.lv[n], visited[n])],
            !.html = t.html \cup (cleanedHtmlCache \cap Nodes(t)),
            !.ext = t.ext \cup (IF includeExtractedLinks
                                THEN extractedLinksMap \cap Nodes(t) ELSE {})]

OrderChildren(t, s, folderFirst, linksOrder) ==
  LET byOrder(q) == IF linksOrder = "alphabetical"
                    THEN SortSeq(q, LAMBDA a, b : Name(a) < Name(b)) ELSE q
      folders == SelectSeq(s, LAMBDA c : t.kids[c] # <<>>)
      leaves == SelectSeq(s, LAMBDA c : t.kids[c] = <<>>)
  IN IF folderFirst THEN byOrder(folders) \o byOrder(leaves) ELSE byOrder(s)

SortTree(t, folderFirst, linksOrder) ==
  [t EXCEPT !.kids = [n \in Nodes(t) |-> OrderChildren(t, t.kids[n], folderFirst, linksOrder)]]

NoVisited == [u \in Urls |-> 0]

VisitedSeq(visited) == SetToSortedSeq({u \in Urls : visited[u] > 0})

mergeNewLinksIntoTree(existingTree, newLinks, visited, cleanedHtmlCache, extractedLinksMap, includeExtractedLinks, folderFirst, linksOrder) ==
  SortTree(AttachContent(InsertAll(InsertAll(existingTree, newLinks), VisitedSeq(visited)),
                         visited, cleanedHtmlCache, extractedLinksMap, includeExtractedLinks),
           folderFirst, linksOrder)

\* the count of distinct URLs the tree represents, set on its root
totalUrls(t) == Cardinality(Nodes(t))

buildLinksTree(internalLinks, rootUrl, visited, cleanedHtmlCache, extractedLinksMap, includeExtractedLinks, folderFirst, linksOrder) ==
  mergeNewLinksIntoTree(NewTree(rootUrl),
                        IF internalLinks = <<>> THEN <<>> ELSE internalLinks[1],
                        visited, cleanedHtmlCache, extractedLinksMap, includeExtractedLinks,
                        folderFirst, linksOrder)

extractVisitedUrlsFromTree(t) == [u \in Urls |-> IF u \in Nodes(t) THEN t.lv[u] ELSE 0]

mergeVisitedUrls(lastVisited, visitedUrls, stamps) ==
  [u \in Urls |-> IF u \in visitedUrls THEN Max(lastVisited[u], stamps[u]) ELSE lastVisited[u]]

processExtractedLinksInTree(t, includeExtractedLinks) ==
  IF includeExtractedLinks THEN t ELSE [t EXCEPT !.ext = {}]

\* children sequences of a tree, for comparing shapes
Shape(t) == t.kids

\* ------------------------------------------------------------- environment
AllOk == [u \in Urls |-> "ok"]

\* the pages of a site: the links of every page in page order, and what a
\* scrape of the page ends with ("ok"; "uncleaned": the cleaner yields nothing;
\* "empty": no HTML; "throw"; "unparsable": the scrape resolves with HTML and
\* extractLinksFromHtml throws on it)
Sites ==
  { [links |-> [u \in Urls |-> CASE u = <<>> -> << <<1>> >>
                                 [] u = <<1>> -> << <<1, 2>>, <<1, 1>> >>
                                 [] OTHER -> <<>>],
     outcome |-> AllOk],
    [links |-> [u \in Urls |-> CASE u = <<>> -> << <<1, 1>>, <<1>> >>
                                 [] u = <<1>> -> << <<1, 2>>, <<2>> >>
                                 [] OTHER -> <<>>],
     outcome |-> [AllOk EXCEPT ![<<1>>] = "uncleaned"]],
    [links |-> [u \in Urls |-> CASE u = <<>> -> << <<2>>, <<1>> >>
                                 [] u = <<1>> -> << <<1, 1>> >>
                                 [] OTHER -> <<>>],
     outcome |-> [AllOk EXCEPT ![<<2>>] = "throw", ![<<1, 1>>] = "empty"]] }

\* a root page with more descendants than MAX_KIN_LIMIT, and a page three levels down
KinSites ==
  { [links |-> [u \in Urls |-> CASE u = <<>> -> << <<1>>, <<2>>, <<1, 1>>, <<1, 2>>, <<1, 1, 1>> >>
                                 [] u = <<1, 1>> -> << <<1, 1, 1>> >>
                                 [] OTHER -> <<>>],
     outcome |-> AllOk] }

\* a root page whose child with the greater name is the one with children
OrderSites ==
  { [links |-> [u \in Urls |-> CASE u = <<>> -> << <<2>>, <<1>> >>
                                 [] u = <<2>> -> << <<2, 1>> >>
                                 [] OTHER -> <<>>],
     outcome |-> AllOk] }

\* pages without links; on one site the page between the root and the deep pages fails
LinklessSites ==
  { [links |-> [u \in Urls |-> <<>>], outcome |-> AllOk],
    [links |-> [u \in Urls |-> <<>>], outcome |-> [AllOk EXCEPT ![<<1>>] = "throw"]] }

\* pages on which link extraction throws: a child of the root and a grandchild
UnparsableSites ==
  { [links |-> [u \in Urls |-> CASE u = <<>> -> << <<1>>, <<2>> >>
                                 [] u = <<2>> -> << <<2, 1>> >>
                                 [] OTHER -> <<>>],
     outcome |-> [AllOk EXCEPT ![<<1>>] = "unparsable", ![<<2, 1>>] = "unparsable"]] }

NoCount == [u \in Urls |-> 0]
NoParams ==
  [url |-> Origin, tree |-> TRUE, cleanedHtml |-> FALSE, extractedLinks |-> FALSE,
   metadata |-> FALSE, folderFirst |-> FALSE, linksOrder |-> "page",
   isPlatformUrl |-> FALSE, cacheEnabled |-> TRUE, metrics |-> FALSE,
   isTree |-> <<>>, robots |-> FALSE, sitemapXML |-> FALSE]

VARIABLES
  site,                   \* the pages being crawled
  kv,                     \* DEEPCRAWL_V0_LINKS_STORE: entries [key, val, by]
  puts,                   \* kvPutWithRetry calls handed to waitUntil, not yet settled
  now,                    \* the clock
  nreq,                   \* requests started so far; the current one's requestId
  pc,                     \* where the current request is
  params,                 \* its LinksOptions
  rootUrl,
  existingTree,           \* <<>> or <<tree>>
  lastVisitedUrlsInCache, \* url -> lastVisited, 0 when absent
  linksCacheIsFresh,
  visitedUrls,            \* _visitedUrls
  visitedUrlsTimestamps,  \* _visitedUrlsTimestamps
  scrapedDataCache,       \* _scrapedDataCache: url -> <<>> or <<ScrapedData>>
  linksSets,              \* _linksSets.internal, in insertion order
  extractedLinksMap,      \* the URLs that have an entry
  skippedUrls,            \* url -> reason, <<>> when absent
  inflight,               \* sub-tasks waiting for their scrape: [kind, url]
  scrapeCount,            \* url -> scrapeService.scrape calls of this request
  targetResult,           \* what processTargetUrl returned: <<>>, <<"ok">> or <<LinksErrorResponse>>
  finalTree,              \* <<>> or <<tree>>
  response,               \* <<>> or <<LinksSuccessResponse>>
  thrown,                 \* <<>> or <<error>> thrown by processLinksRequest
  treeFrom,               \* which branch made the first-pass tree: "", "merge" or "build"
  cacheReadThrew,         \* the cache read of the current request threw
  started,                \* every scrape the current request has started: [kind, url]
                          \* and the robots and sitemapXML options it was given
  prev,                   \* the previous request as it stood when this one started:
                          \* its id, options and response, whether its put had
                          \* settled (and the value it stored), whether no put was pending
  call,                   \* one ScrapeService.scrape call and the request's signal
  derived,                \* <<>> or one root derivation or tree build: its inputs and its result
  batch,                  \* processLinksRequest calls that run at the same time on one
                          \* context object c: their positions and their per-request state
  auth                    \* ApiKeyAuthProvider: its state, the stored key, the fetches in flight

vars ==
  <<site, kv, puts, now, nreq, pc, params, rootUrl, existingTree,
    lastVisitedUrlsInCache, linksCacheIsFresh, visitedUrls, visitedUrlsTimestamps,
    scrapedDataCache, linksSets, extractedLinksMap, skippedUrls, inflight,
    scrapeCount, targetResult, finalTree, response, thrown, treeFrom,
    cacheReadThrew, started, prev, call, derived, batch, auth>>

reqVars ==
  <<params, rootUrl, existingTree, lastVisitedUrlsInCache, linksCacheIsFresh,
    visitedUrls, visitedUrlsTimestamps, scrapedDataCache, linksSets,
    extractedLinksMap, skippedUrls, inflight, scrapeCount, targetResult,
    finalTree, response, thrown, treeFrom, cacheReadThrew, started>>

\* no scrape call yet; c.signal is not aborted
NoCall ==
  [pc |-> "idle", cleaningProcessor |-> "html-rewriter", browser |-> FALSE,
   cleanedHtml |-> FALSE, metadata |-> FALSE, metaFiles |-> FALSE,
   signalAborted |-> FALSE, listener |-> FALSE, controllerAborted |-> FALSE,
   timerArmed |-> FALSE, html |-> FALSE, abortedAtHtml |-> FALSE,
   result |-> <<>>, error |-> <<>>,
   kind |-> "", maxRetries |-> 0, attempt |-> 0, open |-> 0, ok |-> FALSE, succeeded |-> {}]

\* the calls that share a context: the slots of a batch, or requests of one client
Items == 1 .. 2

\* the constants a call of processLinksRequest declares for itself: _visitedUrls,
\* _scrapedDataCache, _linksSets.internal and skippedUrls of call i
StateOfM(i) == 1
StateOf(i) == i

NoState == [visitedUrls |-> {}, scrapedDataCache |-> {}, linksSets |-> <<>>, skippedUrls |-> {}]
\* one call of processBatchRequest: its options, the first item of the chunk
\* in processing, the items in processing, what processItem has returned for
\* the items settled so far, the results pushed, and the response
NoRun ==
  [pc |-> "idle", items |-> <<>>, parallel |-> TRUE, maxConcurrency |-> 1, from |-> 1,
   running |-> {}, settled |-> <<>>, results |-> <<>>, response |-> <<>>]

NoBatch ==
  [c |-> [linksRootKey |-> <<>>], item |-> [i \in Items |-> [pc |-> "idle", url |-> Origin, rootUrl |-> Origin,
                                            inflight |-> {}, target |-> <<>>]],
   state |-> [i \in Items |-> NoState], actor |-> 0, run |-> NoRun]

\* ApiKeyAuthProvider before it is mounted: no key (0), no session, nothing
\* in localStorage, no getSessionWithApiKey call waiting for its response
NoAuth ==
  [mounted |-> FALSE, isLoading |-> TRUE, apiKey |-> 0, session |-> <<>>, stored |-> 0,
   calls |-> {}, n |-> 0]

NoPrev ==
  [id |-> 0, params |-> NoParams, response |-> <<>>, putDone |-> FALSE,
   stored |-> <<>>, quiet |-> TRUE]

InitOn(sites) ==
  /\ site \in sites
  /\ kv = {}
  /\ puts = {}
  /\ now = 0
  /\ nreq = 0
  /\ pc = "idle"
  /\ params = NoParams
  /\ rootUrl = Origin
  /\ existingTree = <<>>
  /\ lastVisitedUrlsInCache = NoVisited
  /\ linksCacheIsFresh = FALSE
  /\ visitedUrls = {}
  /\ visitedUrlsTimestamps = NoVisited
  /\ scrapedDataCache = [u \in Urls |-> <<>>]
  /\ linksSets = <<>>
  /\ extractedLinksMap = {}
  /\ skippedUrls = [u \in Urls |-> <<>>]
  /\ inflight = {}
  /\ scrapeCount = NoCount
  /\ targetResult = <<>>
  /\ finalTree = <<>>
  /\ response = <<>>
  /\ thrown = <<>>
  /\ treeFrom = ""
  /\ cacheReadThrew = FALSE
  /\ started = {}
  /\ prev = NoPrev
  /\ call = NoCall
  /\ derived = <<>>
  /\ batch = NoBatch
  /\ auth = NoAuth

Init == InitOn(Sites)

\* ------------------------------------------------------------------- cache
\* the key of a non-tree response is a hash of all the options and the method
getLinksNonTreeCacheKey(p, isGETRequest) == [url |-> p.url, options |-> <<p, isGETRequest>>]

getWithMetadata(key) ==
  IF \E e \in kv : e.key = key
  THEN <<(CHOOSE e \in kv : e.key = key).val>>
  ELSE <<>>

\* kvPutWithRetry settles: the value replaces what the key held
PutComplete ==
  \E p \in puts :
    /\ kv' = {e \in kv : e.key # p.key} \cup {p}
    /\ puts' = puts \ {p}
    /\ UNCHANGED <<site, now, nreq, pc, prev, call, derived, batch, auth>>
    /\ UNCHANGED reqVars

\* kvPutWithRetry gives up: the store is left as it was
PutFail ==
  \E p \in puts :
    /\ puts' = puts \ {p}
    /\ UNCHANGED <<site, kv, now, nreq, pc, prev, call, derived, batch, auth>>
    /\ UNCHANGED reqVars

\* ------------------------------------------------------- ScrapeService.scrape
\* everything of the links request stays as it is while one scrape call runs
linksVars ==
  <<site, kv, puts, now, nreq, pc, params, rootUrl, existingTree,
    lastVisitedUrlsInCache, linksCacheIsFresh, visitedUrls, visitedUrlsTimestamps,
    scrapedDataCache, linksSets, extractedLinksMap, skippedUrls, inflight,
    scrapeCount, targetResult, finalTree, response, thrown, treeFrom,
    cacheReadThrew, started, prev>>


\* fetchPage up to its first await: the listener on the caller's signal, the
\* timer, then fetch with the controller's own signal. The listener is added
\* whatever the state of the signal: an abort event that was dispatched before
\* is not dispatched again
fetchPage(c) == [c EXCEPT !.pc = "fetching", !.listener = TRUE, !.timerArmed = TRUE]

\* browserRenderWithRetry gets the url, waitUntil and its own timeout
browserRenderWithRetry(c) == [c EXCEPT !.pc = "rendering"]

\* scrape up to its first await
scrape(cleaningProcessor, browser, cleanedHtml, metadata, metaFiles) ==
  /\ call.pc \in {"idle", "returned", "threw"}
  /\ LET c == [NoCall EXCEPT !.cleaningProcessor = cleaningProcessor,
                             !.browser = browser, !.cleanedHtml = cleanedHtml,
                             !.metadata = metadata, !.metaFiles = metaFiles,
                             !.signalAborted = call.signalAborted]
     IN call' = IF cleaningProcessor = "browser" /\ browser
                THEN browserRenderWithRetry(c)
                ELSE fetchPage(c)
  /\ UNCHANGED <<linksVars, derived, batch, auth>>

ScrapeStart ==
  \E cp \in {"html-rewriter", "cheerio-reader", "browser"}, b, ch, md, mf \in BOOLEAN :
     scrape(cp, b, ch, md, mf)

\* c.signal aborts: the listeners registered so far run
SignalAbort ==
  /\ ~call.signalAborted
  /\ call' = [call EXCEPT !.signalAborted = TRUE,
                          !.controllerAborted = @ \/ call.listener]
  /\ UNCHANGED <<linksVars, derived, batch, auth>>

\* the timer set by fetchPage fires
TimeoutFires ==
  /\ call.timerArmed
  /\ call' = [call EXCEPT !.timerArmed = FALSE, !.controllerAborted = TRUE]
  /\ UNCHANGED <<linksVars, derived, batch, auth>>

\* fetch settles without an abort: the timer is cleared, then the status and
\* the content type are checked
FetchSettles(outcome) ==
  /\ call.pc = "fetching"
  /\ ~call.controllerAborted
  /\ call' = IF outcome = "ok"
             THEN [call EXCEPT !.pc = "reading", !.timerArmed = FALSE]
             ELSE [call EXCEPT !.pc = "threw", !.timerArmed = FALSE,
                               !.error = <<outcome>>]
  /\ UNCHANGED <<linksVars, derived, batch, auth>>

\* the controller's signal aborts the fetch or the reading of the body
FetchAborts ==
  /\ call.pc \in {"fetching", "reading"}
  /\ call.controllerAborted
  /\ call' = [call EXCEPT !.pc = "threw", !.timerArmed = FALSE,
                          !.error = IF call.signalAborted
                                    THEN <<"Request cancelled by user">>
                                    ELSE <<"Request timeout">>]
  /\ UNCHANGED <<linksVars, derived, batch, auth>>

\* response.text() settles
BodySettles(ok) ==
  /\ call.pc = "reading"
  /\ ~call.controllerAborted
  /\ call' = IF ok
             THEN [call EXCEPT !.pc = "processing", !.html = TRUE,
                               !.abortedAtHtml = call.signalAborted]
             ELSE [call EXCEPT !.pc = "threw", !.error = <<"network">>]
  /\ UNCHANGED <<linksVars, derived, batch, auth>>

\* browserRenderWithRetry settles
RenderSettles(ok) ==
  /\ call.pc = "rendering"
  /\ call' = IF ok
             THEN [call EXCEPT !.pc = "processing", !.html = TRUE,
                               !.abortedAtHtml = call.signalAborted]
             ELSE [call EXCEPT !.pc = "threw", !.error = <<"render">>]
  /\ UNCHANGED <<linksVars, derived, batch, auth>>

\* the rest of scrape, with the html: fetchMetaFiles and HTMLRewriterCleaning
\* have a catch, extractMetadataWithCheerio and readerCleaning are called in
\* the body of the try
ProcessHtml(cleanerFails, metadataFails, metaFilesFails) ==
  /\ call.pc = "processing"
  /\ LET escapes == \/ call.metadata /\ metadataFails
                    \/ /\ call.cleanedHtml /\ cleanerFails
                       /\ call.cleaningProcessor = "cheerio-reader"
         cleaned == /\ call.cleanedHtml
                    /\ call.cleaningProcessor = "html-rewriter" => ~cleanerFails
     IN call' = IF escapes
                THEN [call EXCEPT !.pc = "threw", !.error = <<"processing">>]
                ELSE [call EXCEPT !.pc = "returned",
                                  !.result = <<[rawHtml |-> TRUE,
                                                cleanedHtml |-> cleaned,
                                                metadata |-> call.metadata,
                                                metaFiles |-> call.metaFiles /\ ~metaFilesFails]>>]
  /\ UNCHANGED <<linksVars, derived, batch, auth>>

SpecScrape ==
  Init /\ [][\/ ScrapeStart \/ SignalAbort \/ TimeoutFires \/ FetchAborts
             \/ \E outcome \in {"ok", "HTTP status", "content type", "network"} : FetchSettles(outcome)
             \/ \E ok \in BOOLEAN : BodySettles(ok)
             \/ \E ok \in BOOLEAN : RenderSettles(ok)
             \/ \E cf, mdf, mff \in BOOLEAN : ProcessHtml(cf, mdf, mff)]_vars

\* ------------------------------------------------------------ root derivation
\* a URL is its protocol, the labels of its host name, its port (0: the
\* default port) and the segments of its path
toLowerCase(s) == CASE s = "GitHub" -> "github" [] s = "Docs" -> "docs" [] OTHER -> s
LowerHost(h) == [i \in DOMAIN h |-> toLowerCase(h[i])]

\* new URL(raw): the parser lowercases the host name
NewURL(raw) == [raw EXCEPT !.hostname = LowerHost(@)]

\* URL.origin: protocol, host name and port
origin(raw) == [NewURL(raw) EXCEPT !.pathname = <<>>]

\* the allowlist, entries "protocol//hostname" in the spelling of the config
PLATFORM_URLS ==
  { [protocol |-> "https:", hostname |-> <<"GitHub", "com">>],
    [protocol |-> "https:", hostname |-> <<"linkedin", "com">>] }

\* the base-domain form: the last two labels of the host name, no port, no path
getRootUrl(raw) ==
  LET h == NewURL(raw).hostname
  IN [protocol |-> raw.protocol, hostname |-> SubSeq(h, Len(h) - 1, Len(h)),
      port |-> 0, pathname |-> <<>>]

checkIsPlatformUrlM(targetUrl, isPlatformUrlProp) ==
  LET u == NewURL(targetUrl)
      normalizedOrigin == [protocol |-> u.protocol, hostname |-> LowerHost(u.hostname)]
  IN \E p \in PLATFORM_URLS : [p EXCEPT !.hostname = LowerHost(@)] = normalizedOrigin
checkIsPlatformUrl(targetUrl, isPlatformUrlProp) ==
  LET u == NewURL(targetUrl)
      normalizedOrigin == [protocol |-> u.protocol, hostname |-> LowerHost(u.hostname)]
      isPrebuilt == \E p \in PLATFORM_URLS : [p EXCEPT !.hostname = LowerHost(@)] = normalizedOrigin
  IN IF isPrebuilt THEN TRUE ELSE isPlatformUrlProp

\* the root of a tree request
DeriveRootUrl(targetUrl, subdomainAsRootUrl, isPlatformUrlProp) ==
  IF checkIsPlatformUrl(targetUrl, isPlatformUrlProp) THEN targetUrl
  ELSE IF subdomainAsRootUrl THEN origin(targetUrl)
  ELSE getRootUrl(targetUrl)

\* the root of a non-tree request
DeriveNonTreeRootUrl(targetUrl, subdomainAsRootUrl, isPlatformUrlProp) ==
  IF checkIsPlatformUrl(targetUrl, isPlatformUrlProp) THEN targetUrl
  ELSE IF subdomainAsRootUrl THEN origin(targetUrl)
  ELSE getRootUrl(targetUrl)

\* the pages of a site are under one origin, which is not in the allowlist
Page(path) == [protocol |-> "https:", hostname |-> <<"h", "test">>, port |-> 0, pathname |-> path]

\* the targets of the root derivation
RawTargets ==
  { [protocol |-> pr, hostname |-> h, port |-> po, pathname |-> pa] :
      pr \in {"https:", "http:"},
      h \in {<<"github", "com">>, <<"GitHub", "com">>, <<"Docs", "github", "com">>,
             <<"docs", "example", "com">>, <<"example", "com">>},
      po \in {0, 8443},
      pa \in {<<>>, <<"alice">>} }

\* the root derivation of one request, in either mode, and the platform flag
\* its tree passes are given: the first-pass build or merge, and the second
\* pass, which runs when cleanedHtml is asked for or metadata is not (enrich)
DeriveRoot ==
  /\ \E t \in RawTargets, sub, flag, treeMode, enrich \in BOOLEAN :
       derived' = <<[target |-> t, subdomainAsRootUrl |-> sub, isPlatformUrl |-> flag,
                    tree |-> treeMode,
                    rootUrl |-> IF treeMode THEN DeriveRootUrl(t, sub, flag)
                                ELSE DeriveNonTreeRootUrl(t, sub, flag),
                    firstPass |-> IF treeMode THEN <<checkIsPlatformUrl(t, flag)>> ELSE <<>>,
                    secondPass |-> IF treeMode /\ enrich THEN <<flag>> ELSE <<>>]>>
  /\ UNCHANGED <<linksVars, call, batch, auth>>

SpecRoot == Init /\ [][DeriveRoot]_vars

\* ------------------------------------------------------------ one tree build
\* internal links as setToArrayOrUndefined hands them over: distinct URLs in
\* any order
LinkLists ==
  {l \in UNION {[1 .. n -> Urls] : n \in 0 .. MaxLinks} :
     \A i, j \in DOMAIN l : i # j => l[i] # l[j]}

\* the visited URLs handed over: some of the deep pages, stamped
VisitedMaps ==
  {[u \in Urls |-> IF u \in V THEN 1 ELSE 0] : V \in SUBSET {<<1, 1>>, <<2, 1>>}}

\* one call of buildLinksTree
BuildOne ==
  /\ derived = <<>>
  /\ \E l \in LinkLists, v \in VisitedMaps, root \in {<<>>, <<1>>},
        ff \in BOOLEAN, order \in {"page", "alphabetical"} :
       derived' = <<[internalLinks |-> l, rootUrl |-> root, visited |-> v,
                    folderFirst |-> ff, linksOrder |-> order,
                    tree |-> buildLinksTree(setToArrayOrUndefined(l), root, v, {}, {},
                                            FALSE, ff, order)]>>
  /\ UNCHANGED <<linksVars, call, batch, auth>>

SpecBuild == Init /\ [][BuildOne]_vars

RootOf(p) == DeriveRootUrl(Page(p.url), TRUE, p.isPlatformUrl).pathname

\* -------------------------------------------------------------- scrape service
\* what scrapeService.scrape resolves with for a page that did not throw
ScrapedData(u) ==
  [rawHtml |-> site.outcome[u] \in {"ok", "uncleaned", "unparsable"},
   cleanedHtml |-> site.outcome[u] = "ok" /\ params.cleanedHtml,
   links |-> IF site.outcome[u] \in {"ok", "uncleaned"} THEN site.links[u] ELSE <<>>]

isUrlInVisitedSet(urlSet, u) == urlSet[u] > 0

rootKeyForCacheM(root) == [url |-> root, options |-> <<params.cleanedHtml, params.metadata>>]
rootKeyForCache(root) == [url |-> root, options |-> <<>>]

\* the scrapeService.scrape call of scrapeIfNotVisited: the meta files are
\* asked for on the root only
ScrapeCall(kind, url) ==
  [kind |-> kind, url |-> url,
   robots |-> url = rootUrl /\ params.robots,
   sitemapXML |-> url = rootUrl /\ params.sitemapXML]

\* the scrapeService.scrape call of processNonTreeRequest
NonTreeScrapeCall(url) ==
  [kind |-> "target", url |-> url, robots |-> params.robots, sitemapXML |-> params.sitemapXML]

\* the state a fan-out threads through its synchronous part
Acc ==
  [links |-> linksSets, ext |-> extractedLinksMap, infl |-> inflight, cnt |-> scrapeCount,
   st |-> started, skip |-> skippedUrls]

\* the message of the error extractLinksFromHtml throws
ExtractErrorMessage == "Failed to extract links"

\* the reason the catch clauses of processKinLinks and processRootUrl record
ProcessSkipReason(errorMessage) == <<"Failed to process: ", errorMessage>>

\* the test of processKinLinks and processRootUrl that leaves out a kin the
\* cached tree has as visited, unless cleanedHtml is asked for
skipCachedM(lastVisited, kin, fresh) == isUrlInVisitedSet(lastVisited, kin) /\ fresh
skipCached(lastVisited, kin, fresh) ==
  ~params.cleanedHtml /\ isUrlInVisitedSet(lastVisited, kin) /\ fresh

\* one kin of processKinLinks up to its first suspension: skip it, continue
\* with the data cached by this request, or start a scrape
StartOneKin(acc, kin, kind, lastVisited, fresh) ==
  IF skipCached(lastVisited, kin, fresh)
  THEN acc
  ELSE IF kin \in visitedUrls
  THEN IF scrapedDataCache[kin] = <<>> \/ (isUrlInVisitedSet(lastVisited, kin) /\ fresh)
       THEN acc
       ELSE IF site.outcome[kin] = "unparsable"
       THEN [acc EXCEPT !.skip[kin] = ProcessSkipReason(ExtractErrorMessage)]
       ELSE LET ex == extractLinksFromHtml(scrapedDataCache[kin][1].links, rootUrl,
                                           checkIsPlatformUrl(Page(params.url), params.isPlatformUrl))
            IN [acc EXCEPT !.ext = IF params.extractedLinks THEN @ \cup {kin} ELSE @,
                           !.links = mergeLinks(ex, @)]
  ELSE [acc EXCEPT !.infl = @ \cup {[kind |-> kind, url |-> kin]},
                   !.cnt[kin] = @ + 1,
                   !.st = @ \cup {ScrapeCall(kind, kin)}]

RECURSIVE processKinLinks(_, _, _, _, _)
processKinLinks(acc, paths, kind, lastVisited, fresh) ==
  IF paths = <<>> THEN acc
  ELSE processKinLinks(StartOneKin(acc, Head(paths), kind, lastVisited, fresh),
                       Tail(paths), kind, lastVisited, fresh)

\* processRootUrl up to its first suspension
processRootUrl(acc, url, lastVisited, fresh) ==
  IF skipCached(lastVisited, url, fresh)
  THEN acc
  ELSE IF url \in visitedUrls THEN acc
  ELSE [acc EXCEPT !.infl = @ \cup {[kind |-> "root", url |-> url]}, !.cnt[url] = @ + 1,
                   !.st = @ \cup {ScrapeCall("root", url)}]

\* processTargetUrl up to its first suspension
processTargetUrl(acc) ==
  [acc EXCEPT !.infl = @ \cup {[kind |-> "target", url |-> params.url]},
              !.cnt[params.url] = @ + 1,
              !.st = @ \cup {ScrapeCall("target", params.url)}]

\* ------------------------------------------------------------------ requests
Targets == {<<>>, <<1>>, <<1, 1>>, <<2>>}

\* the requests of the crawl specification: every target, with and without cleanedHtml
CrawlRequests ==
  {[NoParams EXCEPT !.url = u, !.cleanedHtml = c] : u \in Targets, c \in BOOLEAN}

\* the requests of the content specification: every content option with the
\* cache on, and with the cache off a request with no content and one with both
\* kinds of content
ContentRequests ==
  {[NoParams EXCEPT !.url = <<1>>, !.cleanedHtml = o.c, !.extractedLinks = o.x,
                    !.metadata = o.m, !.cacheEnabled = o.ce]
     : o \in {o \in [c : BOOLEAN, x : BOOLEAN, m : BOOLEAN, ce : BOOLEAN]
                 : o.ce \/ (o.c = o.x /\ ~o.m)}}

\* the requests of the shape specification: the options that shape the tree
ShapeRequests ==
  {[NoParams EXCEPT !.url = u, !.linksOrder = o, !.folderFirst = f, !.isPlatformUrl = pl]
     : u \in {<<>>, <<1>>}, o \in {"page", "alphabetical"}, f \in BOOLEAN, pl \in BOOLEAN}

\* the non-tree requests
NonTreeRequests ==
  {[NoParams EXCEPT !.isTree = <<FALSE>>, !.url = u, !.cleanedHtml = c, !.extractedLinks = x,
                    !.metrics = m, !.cacheEnabled = ce]
     : u \in {<<1>>, <<2>>}, c \in BOOLEAN, x \in BOOLEAN, m \in BOOLEAN, ce \in BOOLEAN}

\* the tree option as given (isTree: <<>> when absent) decides the mode
withTreeM(isTree) == isTree = <<TRUE>>
withTree(isTree) == isTree # <<FALSE>>

StartRequest(p) ==
  /\ pc = "idle"
  /\ nreq < MaxRequests
  /\ nreq' = nreq + 1
  /\ now' = now + 1
  /\ params' = [p EXCEPT !.tree = withTree(p.isTree)]
  /\ rootUrl' = RootOf(p)
  /\ prev' = [id |-> nreq, params |-> params, response |-> response,
              putDone |-> \E e \in kv : e.by = nreq,
              stored |-> IF \E e \in kv : e.by = nreq
                         THEN <<(CHOOSE e \in kv : e.by = nreq).val>> ELSE <<>>,
              quiet |-> puts = {}]
  /\ pc' = IF withTree(p.isTree) THEN "cacheRead" ELSE "ntCacheRead"
  /\ existingTree' = <<>>
  /\ lastVisitedUrlsInCache' = NoVisited
  /\ linksCacheIsFresh' = FALSE
  /\ visitedUrls' = {}
  /\ visitedUrlsTimestamps' = NoVisited
  /\ scrapedDataCache' = [u \in Urls |-> <<>>]
  /\ linksSets' = <<>>
  /\ extractedLinksMap' = {}
  /\ skippedUrls' = [u \in Urls |-> <<>>]
  /\ inflight' = {}
  /\ scrapeCount' = NoCount
  /\ targetResult' = <<>>
  /\ finalTree' = <<>>
  /\ response' = <<>>
  /\ thrown' = <<>>
  /\ treeFrom' = ""
  /\ cacheReadThrew' = FALSE
  /\ started' = {}
  /\ UNCHANGED <<site, kv, puts, call, derived, batch, auth>>

\* a request drawn from one of the request sets
Requested(requests) == \E p \in requests : StartRequest(p)

\* the requests of the fan-out specification: the root and the deepest page
KinRequests ==
  {[NoParams EXCEPT !.url = u, !.cacheEnabled = ce] : u \in {<<>>, <<1, 1, 1>>}, ce \in BOOLEAN}

\* the requests of the ordering specification
OrderRequests ==
  {[NoParams EXCEPT !.url = u, !.linksOrder = o, !.folderFirst = f, !.metadata = m]
     : u \in {<<>>, <<2>>}, o \in {"page", "alphabetical"}, f \in BOOLEAN, m \in BOOLEAN}

\* the requests of the specification with unparsable pages
UnparsableRequests ==
  {[NoParams EXCEPT !.url = u, !.cacheEnabled = ce]
     : u \in {<<>>, <<1>>, <<2>>, <<1, 1>>}, ce \in BOOLEAN}

\* the requests of the platform specification: targets two and three levels down
PlatformRequests ==
  {[NoParams EXCEPT !.url = u, !.isPlatformUrl = pl, !.cacheEnabled = ce]
     : u \in {<<1, 1>>, <<1, 1, 1>>}, pl \in BOOLEAN, ce \in BOOLEAN}

\* the requests of the specification without links
LinklessRequests ==
  {[NoParams EXCEPT !.url = u, !.metadata = m, !.cacheEnabled = ce]
     : u \in {<<>>, <<1>>, <<1, 1>>, <<2>>}, m \in BOOLEAN, ce \in BOOLEAN}

\* the requests of the meta-file specification: both modes, with and without
\* robots and sitemapXML
MetaFileRequests ==
  {[NoParams EXCEPT !.url = u, !.isTree = t, !.robots = r, !.sitemapXML = x]
     : u \in {<<>>, <<1>>}, t \in {<<>>, <<FALSE>>}, r \in BOOLEAN, x \in BOOLEAN}

\* the request of the specification with transient failures
FlakyRequests == {[NoParams EXCEPT !.url = u, !.cacheEnabled = ce] : u \in {<<>>, <<1>>}, ce \in BOOLEAN}


\* the requests of the cache specification: both modes, cache on and off
CacheRequests ==
  {[NoParams EXCEPT !.url = u, !.isTree = t, !.cacheEnabled = ce]
     : u \in {<<1>>, <<2>>}, t \in {<<>>, <<TRUE>>, <<FALSE>>}, ce \in BOOLEAN}


\* the catch clause of a cache read: the request goes on without a cached value
OnCacheReadErrorM(value) == value
OnCacheReadError(value) == <<>>

\* the cache read settles (readThrows: getWithMetadata rejects or the value does
\* not parse) and the root, ancestor and target sub-tasks start
CacheRead(readThrows) ==
  /\ pc = "cacheRead"
  /\ readThrows => params.cacheEnabled
  /\ cacheReadThrew' = readThrows
  /\ LET got == IF ~params.cacheEnabled THEN <<>>
                ELSE IF readThrows
                THEN OnCacheReadError(getWithMetadata(rootKeyForCache(rootUrl)))
                ELSE getWithMetadata(rootKeyForCache(rootUrl))
         fresh == got # <<>>
         lastVisited == IF fresh THEN extractVisitedUrlsFromTree(got[1]) ELSE NoVisited
         ancestors == getAncestorPaths(params.url)
         isPlatformUrl == checkIsPlatformUrl(Page(params.url), params.isPlatformUrl)
         a0 == Acc
         a1 == IF params.url # rootUrl
               THEN IF ~isPlatformUrl
                    THEN processRootUrl(a0, rootUrl, lastVisited, fresh)
                    ELSE IF Len(ancestors) > 0
                         THEN processRootUrl(a0, ancestors[2], lastVisited, fresh)
                         ELSE a0
               ELSE a0
         a2 == IF Len(ancestors) > 0
               THEN processKinLinks(a1,
                      Take(SelectSeq(ancestors, LAMBDA u : u # rootUrl), MAX_KIN_LIMIT),
                      "anc", lastVisited, fresh)
               ELSE a1
         a3 == processTargetUrl(a2)
     IN /\ existingTree' = got
        /\ linksCacheIsFresh' = fresh
        /\ lastVisitedUrlsInCache' = lastVisited
        /\ linksSets' = a3.links
        /\ extractedLinksMap' = a3.ext
        /\ inflight' = a3.infl
        /\ scrapeCount' = a3.cnt
        /\ started' = a3.st
        /\ skippedUrls' = a3.skip
  /\ pc' = "parallel"
  /\ UNCHANGED <<site, kv, puts, now, nreq, params, rootUrl, visitedUrls,
                 visitedUrlsTimestamps, scrapedDataCache,
                 targetResult, finalTree, response, thrown, treeFrom, prev, call, derived, batch, auth>>

CacheReadAndFanOut == CacheRead(FALSE)
CacheReadThrows == CacheRead(TRUE)

\* the message of the error scrapeService.scrape throws
ErrorMessage == "It may be a temporary issue or the URL may be unreachable."

\* the reason scrapeIfNotVisited records: a prefix and the message of the error
ScrapeSkipReasonM(errorMessage) == <<"Failed to process: ", errorMessage>>
ScrapeSkipReason(errorMessage) == <<"Failed to scrape: ", errorMessage>>

createLinksErrorResponse(requestId, targetUrl, treeMode, existing, tree) ==
  [requestId |-> requestId, success |-> FALSE, targetUrl |-> targetUrl,
   error |-> "Failed to scrape target URL. The URL may be unreachable, a placeholder URL, or returning an error status.",
   timestamp |-> now,
   tree |-> IF treeMode /\ existing # <<>> THEN tree ELSE <<>>]

LinksProcessingError(data) ==
  [name |-> "LinksProcessingError", message |-> data.error, data |-> <<data>>]

\* the catch clause of processLinksRequest: what it throws in place of error
Rethrow(error) == [name |-> "Error", message |-> error.message, data |-> <<>>]

\* a scrape started by scrapeIfNotVisited settles and its sub-task runs on to
\* its end (for the root: to the start of the scrapes of its descendants); a
\* target sub-task that ends by throwing rejects the Promise.all of the
\* parallel phase, and the request throws at once
Settle(task, failed) ==
  /\ pc \in {"parallel", "descendants"}
  /\ task \in inflight
  /\ LET url == task.url
         result == IF failed THEN <<>> ELSE <<ScrapedData(url)>>
         lastVisited == IF failed THEN lastVisitedUrlsInCache
                        ELSE [lastVisitedUrlsInCache EXCEPT ![url] = Max(@, now)]
         isPlatformUrl == checkIsPlatformUrl(Page(params.url), params.isPlatformUrl)
         unparsable == site.outcome[url] = "unparsable"
         a0 == [Acc EXCEPT !.infl = @ \ {task},
                           !.skip = IF failed
                                    THEN [@ EXCEPT ![url] = ScrapeSkipReason(ErrorMessage)]
                                    ELSE @]
         caught(acc) == [acc EXCEPT !.skip[url] = ProcessSkipReason(ExtractErrorMessage)]
         merged(acc, ex) ==
           [acc EXCEPT !.ext = IF params.extractedLinks THEN @ \cup {url} ELSE @,
                       !.links = mergeLinks(ex, @)]
         noHtml == result = <<>> \/ ~result[1].rawHtml
         a1 == CASE task.kind = "target" ->
                      IF noHtml \/ unparsable THEN a0
                      ELSE merged(a0, extractLinksFromHtml(result[1].links, rootUrl, isPlatformUrl))
                 [] task.kind = "root" ->
                      IF result = <<>> THEN a0
                      ELSE IF unparsable THEN caught(a0)
                      ELSE LET ex == extractLinksFromHtml(result[1].links, url, isPlatformUrl)
                               rootDescendants == getDescendantPaths(url, Range(ex))
                           IN processKinLinks(merged(a0, ex),
                                              Take(rootDescendants, MAX_KIN_LIMIT),
                                              "rdesc", lastVisited, linksCacheIsFresh)
                 [] OTHER ->
                      IF result = <<>>
                         \/ (isUrlInVisitedSet(lastVisited, url) /\ linksCacheIsFresh)
                      THEN a0
                      ELSE IF unparsable THEN caught(a0)
                      ELSE merged(a0, extractLinksFromHtml(result[1].links, rootUrl, isPlatformUrl))
         rejects == task.kind = "target" /\ ~noHtml /\ unparsable
     IN /\ skippedUrls' = a1.skip
        /\ thrown' = IF rejects THEN <<Rethrow([message |-> ExtractErrorMessage])>> ELSE thrown
        /\ pc' = IF rejects THEN "idle" ELSE pc
        /\ visitedUrls' = IF failed THEN visitedUrls ELSE visitedUrls \cup {url}
        /\ visitedUrlsTimestamps' = IF failed THEN visitedUrlsTimestamps
                                    ELSE [visitedUrlsTimestamps EXCEPT ![url] = now]
        /\ lastVisitedUrlsInCache' = lastVisited
        /\ scrapedDataCache' = IF failed THEN scrapedDataCache
                               ELSE [scrapedDataCache EXCEPT ![url] = result]
        /\ targetResult' =
             IF task.kind # "target" THEN targetResult
             ELSE IF noHtml
                  THEN <<createLinksErrorResponse(nreq, params.url, params.tree,
                                                  existingTree, existingTree)>>
                  ELSE IF rejects THEN targetResult
                  ELSE <<[success |-> TRUE]>>
        /\ linksSets' = a1.links
        /\ extractedLinksMap' = a1.ext
        /\ inflight' = a1.infl
        /\ scrapeCount' = a1.cnt
        /\ started' = a1.st
  /\ UNCHANGED <<site, kv, puts, now, nreq, params, rootUrl, existingTree,
                 linksCacheIsFresh, finalTree, response, treeFrom,
                 cacheReadThrew, prev, call, derived, batch, auth>>

\* the scrape ends as the page decides
ScrapeSettles(task) == Settle(task, site.outcome[task.url] = "throw")

ScrapeDone == \E task \in inflight : ScrapeSettles(task)

\* one scrape fails whatever the page is (a timeout, an abort, a network error)
ScrapeFailsOnce == \E task \in inflight : Settle(task, TRUE)

\* the error response among the results of the parallel sub-tasks, if any
errorResponseM(results) == <<>>
errorResponse(results) ==
  IF results # <<>> /\ ~results[1].success THEN <<results[1]>> ELSE <<>>

\* every parallel sub-task has settled: the error of the target is thrown, or
\* the descendants of the target are enumerated (and scraped when it is the root)
Aggregate ==
  /\ pc = "parallel"
  /\ inflight = {}
  /\ IF errorResponse(targetResult) # <<>>
     THEN /\ thrown' = <<Rethrow(LinksProcessingError(errorResponse(targetResult)[1]))>>
          /\ pc' = "idle"
          /\ UNCHANGED <<linksSets, extractedLinksMap, inflight, scrapeCount, started,
                         skippedUrls>>
     ELSE LET descendants == getDescendantPaths(params.url, Range(linksSets))
              a1 == IF rootUrl = params.url /\ Len(descendants) > 0
                    THEN processKinLinks(Acc, Take(descendants, MAX_KIN_LIMIT), "tdesc",
                                         lastVisitedUrlsInCache, linksCacheIsFresh)
                    ELSE Acc
          IN /\ linksSets' = a1.links
             /\ extractedLinksMap' = a1.ext
             /\ inflight' = a1.infl
             /\ scrapeCount' = a1.cnt
             /\ started' = a1.st
             /\ skippedUrls' = a1.skip
             /\ pc' = "descendants"
             /\ UNCHANGED thrown
  /\ UNCHANGED <<site, kv, puts, now, nreq, params, rootUrl, existingTree,
                 lastVisitedUrlsInCache, linksCacheIsFresh, visitedUrls,
                 visitedUrlsTimestamps, scrapedDataCache,
                 targetResult, finalTree, response, treeFrom, cacheReadThrew, prev, call, derived, batch, auth>>

CleanedHtmlCache ==
  {u \in Urls : scrapedDataCache[u] # <<>> /\ scrapedDataCache[u][1].cleanedHtml}

\* the cleanedHtml map the first-pass build or merge is given: none
FirstPassCleanedHtmlM == CleanedHtmlCache
FirstPassCleanedHtml == {}

\* the visited URLs handed to the build, the merge and the second pass: those
\* of the cached tree merged with those of this request
MergedVisitedUrlsM == NoVisited
MergedVisitedUrls ==
  mergeVisitedUrls(lastVisitedUrlsInCache, visitedUrls, visitedUrlsTimestamps)

\* the ordering options handed to the build, the merge and the second pass
TreeOrderM(p) == [folderFirst |-> FALSE, linksOrder |-> p.linksOrder]
TreeOrder(p) == [folderFirst |-> p.folderFirst, linksOrder |-> p.linksOrder]

\* the put of the tree pipeline: issued once the first-pass tree stands, before
\* the second pass and the response
TreePutM(tree) == {}
TreePut(tree) ==
  IF params.cacheEnabled
  THEN {[key |-> rootKeyForCache(rootUrl), val |-> tree, by |-> nreq]}
  ELSE {}

\* the first-pass tree is merged or built, and its put is handed to waitUntil
BuildTree ==
  /\ pc = "descendants"
  /\ inflight = {}
  /\ LET internalLinks == setToArrayOrUndefined(linksSets)
         reuse == linksCacheIsFresh /\ existingTree # <<>> /\ internalLinks # <<>>
         tree == IF reuse
                 THEN mergeNewLinksIntoTree(existingTree[1], internalLinks[1],
                        MergedVisitedUrls, FirstPassCleanedHtml, extractedLinksMap,
                        params.extractedLinks, TreeOrder(params).folderFirst,
                        TreeOrder(params).linksOrder)
                 ELSE buildLinksTree(internalLinks, rootUrl, MergedVisitedUrls,
                        FirstPassCleanedHtml, extractedLinksMap, params.extractedLinks,
                        TreeOrder(params).folderFirst, TreeOrder(params).linksOrder)
     IN /\ finalTree' = <<tree>>
        /\ treeFrom' = IF reuse THEN "merge" ELSE "build"
        /\ puts' = puts \cup TreePut(tree)
  /\ pc' = "built"
  /\ UNCHANGED <<site, kv, now, nreq, params, rootUrl, existingTree,
                 lastVisitedUrlsInCache, linksCacheIsFresh, visitedUrls,
                 visitedUrlsTimestamps, scrapedDataCache, linksSets,
                 extractedLinksMap, skippedUrls, inflight, scrapeCount,
                 targetResult, response, thrown, cacheReadThrew, started, prev, call, derived, batch, auth>>

\* the put is handed to executionCtx.waitUntil and never awaited
PutAwaitedM == \E p \in puts : p.by = nreq
PutAwaited == FALSE

\* the request leaves the tree pipeline: the guard of Respond and its move
RespondStep == pc = "built" /\ ~PutAwaited /\ pc' = "idle"

\* second-pass enrichment, extractedLinks filtering and the response
Respond ==
  /\ RespondStep
  /\ LET enriched == IF params.cleanedHtml \/ ~params.metadata
                     THEN mergeNewLinksIntoTree(finalTree[1], <<>>, MergedVisitedUrls,
                            CleanedHtmlCache, extractedLinksMap, params.extractedLinks,
                            TreeOrder(params).folderFirst, TreeOrder(params).linksOrder)
                     ELSE finalTree[1]
         tree == processExtractedLinksInTree(enriched, params.extractedLinks)
     IN /\ finalTree' = <<tree>>
        /\ response' = <<[requestId |-> nreq, success |-> TRUE,
                          cached |-> linksCacheIsFresh, targetUrl |-> params.url,
                          timestamp |-> now, tree |-> <<tree>>,
                          extractedLinks |-> <<>>, cleanedHtml |-> FALSE,
                          metrics |-> IF params.metrics THEN <<now>> ELSE <<>>]>>
  /\ UNCHANGED <<site, kv, puts, now, nreq, params, rootUrl, existingTree,
                 lastVisitedUrlsInCache, linksCacheIsFresh, visitedUrls,
                 visitedUrlsTimestamps, scrapedDataCache, linksSets,
                 extractedLinksMap, skippedUrls, inflight, scrapeCount,
                 targetResult, thrown, treeFrom, cacheReadThrew, started, prev, call, derived, batch, auth>>

\* ------------------------------------------------------- processNonTreeRequest
\* what a cache hit returns
CachedResponseM(cachedResponse) ==
  [cachedResponse EXCEPT !.requestId = nreq, !.cached = TRUE, !.timestamp = now]
CachedResponse(cachedResponse) == [cachedResponse EXCEPT !.cached = TRUE, !.timestamp = now]

\* the cache read settles: the cached response is returned, or the target is scraped
NonTreeRead(readThrows) ==
  /\ pc = "ntCacheRead"
  /\ readThrows => params.cacheEnabled
  /\ cacheReadThrew' = readThrows
  /\ LET key == getLinksNonTreeCacheKey(params, FALSE)
         got == IF ~params.cacheEnabled THEN <<>>
                ELSE IF readThrows THEN OnCacheReadError(getWithMetadata(key))
                ELSE getWithMetadata(key)
     IN IF got # <<>>
        THEN /\ response' = <<CachedResponse(got[1])>>
             /\ pc' = "idle"
             /\ UNCHANGED <<scrapeCount, started>>
        ELSE /\ scrapeCount' = [scrapeCount EXCEPT ![params.url] = @ + 1]
             /\ started' = started \cup {NonTreeScrapeCall(params.url)}
             /\ pc' = "ntScrape"
             /\ UNCHANGED response
  /\ UNCHANGED <<site, kv, puts, now, nreq, params, rootUrl, existingTree,
                 lastVisitedUrlsInCache, linksCacheIsFresh, visitedUrls,
                 visitedUrlsTimestamps, scrapedDataCache, linksSets,
                 extractedLinksMap, skippedUrls, inflight, targetResult,
                 finalTree, thrown, treeFrom, prev, call, derived, batch, auth>>

NonTreeCacheRead == NonTreeRead(FALSE)
NonTreeCacheReadThrows == NonTreeRead(TRUE)

\* the scrape of the target settles: the response is built, its put is handed
\* to waitUntil and it is returned; or the request throws
NonTreeScrapeDone ==
  /\ pc = "ntScrape"
  /\ LET url == params.url
         isPlatformUrl == checkIsPlatformUrl(Page(url), params.isPlatformUrl)
         data == ScrapedData(url)
         finalResponse ==
           [requestId |-> nreq, success |-> TRUE, cached |-> FALSE, targetUrl |-> url,
            timestamp |-> now, tree |-> <<>>,
            extractedLinks |-> IF params.extractedLinks
                               THEN <<extractLinksFromHtml(data.links, rootUrl, isPlatformUrl)>>
                               ELSE <<>>,
            cleanedHtml |-> params.cleanedHtml /\ data.cleanedHtml,
            metrics |-> IF params.metrics THEN <<now>> ELSE <<>>]
     IN IF site.outcome[url] = "throw" \/ ~data.rawHtml
        THEN /\ thrown' = <<[name |-> "Error",
                             message |-> IF site.outcome[url] = "throw" THEN ErrorMessage
                                         ELSE "Failed to scrape target URL",
                             data |-> <<>>]>>
             /\ UNCHANGED <<response, puts>>
        ELSE /\ response' = <<finalResponse>>
             /\ puts' = IF params.cacheEnabled
                        THEN puts \cup {[key |-> getLinksNonTreeCacheKey(params, FALSE),
                                         val |-> finalResponse, by |-> nreq]}
                        ELSE puts
             /\ UNCHANGED thrown
  /\ pc' = "idle"
  /\ UNCHANGED <<site, kv, now, nreq, params, rootUrl, existingTree,
                 lastVisitedUrlsInCache, linksCacheIsFresh, visitedUrls,
                 visitedUrlsTimestamps, scrapedDataCache, linksSets,
                 extractedLinksMap, skippedUrls, inflight, scrapeCount,
                 targetResult, finalTree, treeFrom, cacheReadThrew, started, prev, call, derived, batch, auth>>

\* ------------------------------------------------- calls that share a context
\* Calls of processLinksRequest that run at the same time: the items of one
\* chunk of processBatchRequest, which all get the context object c of the
\* batch, or requests of their own.  The calls are tree requests without
\* cache, on pages whose links can be extracted.
BatchTargets == {<<>>, <<1>>, <<1, 1>>}

\* processKinLinks of a call up to its first suspension: a kin the call has
\* visited is continued with the data the call cached, any other is scraped
RECURSIVE ItemKinLinks(_, _, _, _)
ItemKinLinks(acc, paths, kind, root) ==
  IF paths = <<>> THEN acc
  ELSE LET kin == Head(paths)
           next == IF kin \in acc.st.visitedUrls
                   THEN [acc EXCEPT !.st.linksSets =
                           mergeLinks(extractLinksFromHtml(ScrapedData(kin).links, root, FALSE), @)]
                   ELSE [acc EXCEPT !.infl = @ \cup {[kind |-> kind, url |-> kin]}]
       IN ItemKinLinks(next, Tail(paths), kind, root)

\* call i starts: its state is declared, the root key is written to the shared
\* context, and the root, ancestor and target sub-tasks start their scrapes
ItemStart(i, u) ==
  /\ batch.item[i].pc = "idle"
  /\ LET root == RootOf([NoParams EXCEPT !.url = u])
         ancestors == getAncestorPaths(u)
         a0 == [st |-> NoState, infl |-> {}]
         a1 == IF u # root
               THEN [a0 EXCEPT !.infl = @ \cup {[kind |-> "root", url |-> root]}]
               ELSE a0
         a2 == IF Len(ancestors) > 0
               THEN ItemKinLinks(a1, Take(SelectSeq(ancestors, LAMBDA x : x # root),
                                          MAX_KIN_LIMIT), "anc", root)
               ELSE a1
         a3 == [a2 EXCEPT !.infl = @ \cup {[kind |-> "target", url |-> u]}]
     IN batch' = [batch EXCEPT !.c.linksRootKey = <<root>>,
                               !.item[i] = [pc |-> "parallel", url |-> u, rootUrl |-> root,
                                            inflight |-> a3.infl, target |-> <<>>],
                               !.state[StateOf(i)] = a3.st,
                               !.actor = i]
  /\ UNCHANGED <<linksVars, call, derived, auth>>


\* a scrape of call i settles and its sub-task runs on to its end
ItemScrapeSettles(i, task) ==
  /\ batch.item[i].pc \in {"parallel", "descendants"}
  /\ task \in batch.item[i].inflight
  /\ LET it == batch.item[i]
         own == batch.state[StateOf(i)]
         url == task.url
         failed == site.outcome[url] = "throw"
         data == ScrapedData(url)
         st1 == IF failed THEN [own EXCEPT !.skippedUrls = @ \cup {url}]
                ELSE [own EXCEPT !.visitedUrls = @ \cup {url},
                                 !.scrapedDataCache = @ \cup {url}]
         a0 == [st |-> st1, infl |-> it.inflight \ {task}]
         ex == extractLinksFromHtml(data.links, it.rootUrl, FALSE)
         merged == [a0 EXCEPT !.st.linksSets = mergeLinks(ex, @)]
         a1 == CASE task.kind = "target" -> IF failed \/ ~data.rawHtml THEN a0 ELSE merged
                 [] task.kind = "root" ->
                      IF failed THEN a0
                      ELSE ItemKinLinks(merged,
                                        Take(getDescendantPaths(url, Range(ex)), MAX_KIN_LIMIT),
                                        "rdesc", it.rootUrl)
                 [] OTHER -> IF failed THEN a0 ELSE merged
     IN batch' = [batch EXCEPT !.item[i].inflight = a1.infl,
                               !.item[i].target = IF task.kind = "target"
                                                  THEN <<~(failed \/ ~data.rawHtml)>> ELSE @,
                               !.state[StateOf(i)] = a1.st,
                               !.actor = i]
  /\ UNCHANGED <<linksVars, call, derived, auth>>


\* the parallel sub-tasks of call i have settled: it throws the error of its
\* target, or goes on to the descendants of the target
ItemAggregate(i) ==
  /\ batch.item[i].pc = "parallel"
  /\ batch.item[i].inflight = {}
  /\ LET it == batch.item[i]
         own == batch.state[StateOf(i)]
         descendants == getDescendantPaths(it.url, Range(own.linksSets))
         a1 == IF it.rootUrl = it.url /\ Len(descendants) > 0
               THEN ItemKinLinks([st |-> own, infl |-> {}], Take(descendants, MAX_KIN_LIMIT),
                                 "tdesc", it.rootUrl)
               ELSE [st |-> own, infl |-> {}]
     IN IF ~it.target[1]
        THEN batch' = [batch EXCEPT !.item[i].pc = "failed", !.actor = i]
        ELSE batch' = [batch EXCEPT !.item[i].pc = "descendants",
                                    !.item[i].inflight = a1.infl,
                                    !.state[StateOf(i)] = a1.st,
                                    !.actor = i]
  /\ UNCHANGED <<linksVars, call, derived, auth>>


\* call i returns its response; processItem wraps it into the result of the item
ItemRespond(i) ==
  /\ batch.item[i].pc = "descendants"
  /\ batch.item[i].inflight = {}
  /\ batch' = [batch EXCEPT !.item[i].pc = "done", !.actor = i]
  /\ UNCHANGED <<linksVars, call, derived, auth>>


SpecBatch ==
  Init /\ [][\/ \E i \in Items, u \in BatchTargets : ItemStart(i, u)
             \/ \E i \in Items : \E task \in batch.item[i].inflight : ItemScrapeSettles(i, task)
             \/ \E i \in Items : ItemAggregate(i)
             \/ \E i \in Items : ItemRespond(i)]_vars

\* ----------------------------------------------------- processBatchRequest
\* the item lists of a batch: an item is its id and whether processing it
\* (processReadRequest or processLinksRequest) throws
BatchItemLists ==
  UNION {{[i \in 1 .. n |-> [id |-> i, throws |-> f[i]]] : f \in [1 .. n -> BOOLEAN]}
           : n \in 1 .. MaxItems}

\* what processItem returns for an item: it catches what the processing throws
processItemM(item) == [id |-> item.id, success |-> TRUE]
processItem(item) == [id |-> item.id, success |-> ~item.throws]

\* the items run together from item `from` on: a chunk of maxConcurrency items
\* in parallel mode, one item in sequential mode
ChunkM(items, from, parallel, maxConcurrency) == from .. Len(items)
Chunk(items, from, parallel, maxConcurrency) ==
  {i \in from .. Len(items) : i < from + (IF parallel THEN maxConcurrency ELSE 1)}

\* processBatchRequest is called and runs up to its first await: the items of
\* the first chunk are in processing
BatchStart ==
  /\ batch.run.pc = "idle"
  /\ \E items \in BatchItemLists, parallel \in BOOLEAN, maxConcurrency \in 1 .. MaxConcurrency :
       batch' = [batch EXCEPT !.run =
                   [NoRun EXCEPT !.pc = "run", !.items = items, !.parallel = parallel,
                                 !.maxConcurrency = maxConcurrency,
                                 !.settled = [i \in DOMAIN items |-> <<>>],
                                 !.running = Chunk(items, 1, parallel, maxConcurrency)]]
  /\ UNCHANGED <<linksVars, call, derived, auth>>

\* the processing of item i returns or throws and processItem returns its
\* result; with the last item of the chunk the results of the chunk are pushed
\* in the order of the items, and the next chunk starts or the response is built
ItemSettles(i) ==
  /\ batch.run.pc = "run"
  /\ i \in batch.run.running
  /\ LET r == batch.run
         settled == [r.settled EXCEPT ![i] = <<processItem(r.items[i])>>]
         chunk == Chunk(r.items, r.from, r.parallel, r.maxConcurrency)
         chunkResults == [k \in 1 .. Cardinality(chunk) |-> settled[r.from + k - 1][1]]
         results == r.results \o chunkResults
         from == r.from + Cardinality(chunk)
     IN batch' = [batch EXCEPT !.run =
          IF r.running # {i}
          THEN [r EXCEPT !.settled = settled, !.running = @ \ {i}]
          ELSE IF from <= Len(r.items)
          THEN [r EXCEPT !.settled = settled, !.results = results, !.from = from,
                         !.running = Chunk(r.items, from, r.parallel, r.maxConcurrency)]
          ELSE [r EXCEPT !.settled = settled, !.results = results, !.from = from,
                         !.running = {}, !.pc = "done",
                         !.response =
                           <<[success |-> TRUE,
                              totalItems |-> Len(r.items),
                              successfulItems |->
                                Cardinality({k \in DOMAIN results : results[k].success}),
                              failedItems |->
                                Cardinality({k \in DOMAIN results : ~results[k].success}),
                              results |-> results]>>]]
  /\ UNCHANGED <<linksVars, call, derived, auth>>

ItemsSettle == \E i \in batch.run.running : ItemSettles(i)

\* one batch; the processing of every item ends, and a settled promise is
\* followed by its continuation
SpecChunks == Init /\ [][BatchStart \/ ItemsSettle]_vars /\ WF_vars(ItemsSettle)

\* ------------------------------------------------------- browser sessions
\* A call of browserRenderWithRetry (kind "render") or processScreenshotRequest
\* (kind "screenshot") in the variable call: the attempt in progress, the
\* browsers launched and not yet closed, whether the attempt in its finally
\* block had succeeded, and the attempts that have succeeded. The result and
\* the error carry the number of the attempt they come from.

\* the loop of browserRenderWithRetry goes round again after a failed attempt
MoreAttemptsM(attempt, maxRetries) == attempt <= maxRetries
MoreAttempts(attempt, maxRetries) == attempt < maxRetries

\* an attempt is over, its finally block included: browserRenderWithRetry
\* returns its result or waits and tries again or throws its error;
\* processScreenshotRequest returns a response in every case
AttemptEnds(c, ok) ==
  IF c.kind = "screenshot"
  THEN [c EXCEPT !.pc = "returned", !.result = <<[success |-> ok]>>]
  ELSE IF ok THEN [c EXCEPT !.pc = "returned", !.result = <<c.attempt>>]
  ELSE IF MoreAttempts(c.attempt, c.maxRetries) THEN [c EXCEPT !.pc = "waiting"]
  ELSE [c EXCEPT !.pc = "threw", !.error = <<c.attempt>>]

\* the try block is left with or without an error: the finally block closes
\* the browser if one was launched
FinallyM(c, ok) == IF c.open > 0 /\ ok THEN [c EXCEPT !.pc = "closing", !.ok = ok] ELSE AttemptEnds(c, ok)
Finally(c, ok) == IF c.open > 0 THEN [c EXCEPT !.pc = "closing", !.ok = ok] ELSE AttemptEnds(c, ok)

\* the call, up to puppeteer.launch; processScreenshotRequest returns an error
\* response at once when the browser binding is missing
SessionStart ==
  /\ call.pc = "idle"
  /\ \E kind \in {"render", "screenshot"}, maxRetries \in 0 .. MaxRetries, binding \in BOOLEAN :
       /\ kind = "screenshot" => maxRetries = 0
       /\ kind = "render" => binding
       /\ call' = IF binding
                  THEN [NoCall EXCEPT !.kind = kind, !.maxRetries = maxRetries, !.pc = "launching"]
                  ELSE Finally([NoCall EXCEPT !.kind = kind], FALSE)
  /\ UNCHANGED <<linksVars, derived, batch, auth>>

\* puppeteer.launch settles
Launched ==
  /\ call.pc = "launching"
  /\ \E ok \in BOOLEAN :
       call' = IF ok THEN [call EXCEPT !.pc = "page", !.open = @ + 1]
               ELSE Finally(call, FALSE)
  /\ UNCHANGED <<linksVars, derived, batch, auth>>

\* the work on the page (newPage, goto, content and title, or setViewport,
\* goto and screenshot) ends: with its result, with a response that is not ok,
\* or with an error thrown by one of the calls
PageWork ==
  /\ call.pc = "page"
  /\ \E ok \in BOOLEAN :
       call' = Finally([call EXCEPT !.succeeded = IF ok THEN @ \cup {call.attempt} ELSE @], ok)
  /\ UNCHANGED <<linksVars, derived, batch, auth>>

\* browser.close() of the finally block settles
Closed ==
  /\ call.pc = "closing"
  /\ call' = AttemptEnds([call EXCEPT !.open = @ - 1], call.ok)
  /\ UNCHANGED <<linksVars, derived, batch, auth>>

\* the pause before the next attempt is over
NextAttempt ==
  /\ call.pc = "waiting"
  /\ call' = [call EXCEPT !.pc = "launching", !.attempt = @ + 1]
  /\ UNCHANGED <<linksVars, derived, batch, auth>>

SessionStep == Launched \/ PageWork \/ Closed \/ NextAttempt

\* one call; every await of it settles
SpecSession == Init /\ [][SessionStart \/ SessionStep]_vars /\ WF_vars(SessionStep)

\* ------------------------------------------------------ ApiKeyAuthProvider
\* The provider in the variable auth: the states apiKey, session and
\* isLoading, the key in localStorage, and the getSessionWithApiKey calls
\* whose fetch has not answered, each with the key it sent. Keys are
\* 1 .. MaxKeys and 0 is null; the session of the user of key k is <<k>>.
\* getSessionWithApiKey up to its fetch: nothing without a key, otherwise a
\* request that carries the key of the render the callback belongs to
getSessionWithApiKey(a) ==
  IF a.apiKey = 0 THEN a
  ELSE [a EXCEPT !.calls = @ \cup {[id |-> a.n + 1, key |-> a.apiKey]}, !.n = @ + 1]

\* the effect on [apiKey, isLoading, getSessionWithApiKey], run after a
\* render in which one of them has changed
ValidateOnChange(old, a) ==
  IF a.apiKey # 0 /\ ~a.isLoading /\ (a.apiKey # old.apiKey \/ a.isLoading # old.isLoading)
  THEN getSessionWithApiKey(a) ELSE a

clearAuth(a) == [a EXCEPT !.stored = 0, !.apiKey = 0, !.session = <<>>]

\* the provider is mounted in a browser whose localStorage holds the key of
\* an earlier visit or none; the mount effect reads it
ProviderMount ==
  /\ ~auth.mounted
  /\ \E k \in 0 .. MaxKeys :
       auth' = ValidateOnChange(auth,
                 [auth EXCEPT !.mounted = TRUE, !.stored = k, !.apiKey = k, !.isLoading = FALSE])
  /\ UNCHANGED <<linksVars, call, derived, batch>>

\* a consumer sets a key (sign-in, OAuth callback) or null
SetApiKey ==
  /\ auth.mounted /\ auth.n < MaxCalls
  /\ \E k \in 0 .. MaxKeys :
       auth' = ValidateOnChange(auth, [auth EXCEPT !.stored = k, !.apiKey = k])
  /\ UNCHANGED <<linksVars, call, derived, batch>>

\* a consumer calls getSessionWithApiKey of the current render
GetSession ==
  /\ auth.mounted /\ auth.n < MaxCalls /\ auth.apiKey # 0
  /\ auth' = getSessionWithApiKey(auth)
  /\ UNCHANGED <<linksVars, call, derived, batch>>

\* a consumer calls clearAuth (sign-out)
ClearAuth ==
  /\ auth.mounted
  /\ auth' = clearAuth(auth)
  /\ UNCHANGED <<linksVars, call, derived, batch>>

\* the fetch of a call answers: with a session that has a user, with 401,
\* or with anything else (another status, a body without user, a network error)
FetchAnswers ==
  /\ \E f \in auth.calls, answer \in {"user", "unauthorized", "other"} :
       LET a == [auth EXCEPT !.calls = @ \ {f}]
       IN auth' = CASE answer = "user" -> [a EXCEPT !.session = <<f.key>>]
                    [] answer = "unauthorized" -> clearAuth(a)
                    [] OTHER -> a
  /\ UNCHANGED <<linksVars, call, derived, batch>>

SpecAuth ==
  Init /\ [][ProviderMount \/ SetApiKey \/ GetSession \/ ClearAuth \/ FetchAnswers]_vars

\* ------------------------------------------------------------ specifications
TreePipeline ==
  \/ CacheReadAndFanOut
  \/ ScrapeDone
  \/ Aggregate
  \/ BuildTree
  \/ Respond
  \/ PutComplete
  \/ PutFail

\* the tree pipeline serving requests of one request set
TreeRequests(requests) == Requested(requests) \/ TreePipeline

Next == TreeRequests(CrawlRequests)
Spec == Init /\ [][Next]_vars

SpecContent == Init /\ [][TreeRequests(ContentRequests)]_vars

SpecShape == Init /\ [][TreeRequests(ShapeRequests)]_vars

SpecNonTree ==
  Init /\ [][\/ Requested(NonTreeRequests)
             \/ NonTreeCacheRead
             \/ NonTreeScrapeDone
             \/ PutComplete
             \/ PutFail]_vars

\* the ordering options on a site where they make a difference
SpecOrder == InitOn(OrderSites) /\ [][TreeRequests(OrderRequests)]_vars

\* the fan-out on a wide and deep site
SpecKin == InitOn(KinSites) /\ [][TreeRequests(KinRequests)]_vars

\* sub-tasks that end by throwing
SpecUnparsable == InitOn(UnparsableSites) /\ [][TreeRequests(UnparsableRequests)]_vars

\* platform mode below the first level
SpecPlatform == InitOn(KinSites) /\ [][TreeRequests(PlatformRequests)]_vars

\* sites whose pages have no links
SpecLinkless == InitOn(LinklessSites) /\ [][TreeRequests(LinklessRequests)]_vars

\* robots.txt and sitemap.xml in both modes
SpecMetaFiles ==
  InitOn(OrderSites) /\ [][\/ Requested(MetaFileRequests)
                           \/ TreePipeline
                           \/ NonTreeCacheRead
                           \/ NonTreeScrapeDone]_vars

\* scrapes that fail once and succeed another time
SpecFlaky == Init /\ [][TreeRequests(FlakyRequests) \/ ScrapeFailsOnce]_vars

\* both modes on one store, with cache reads that may throw
SpecCache ==
  Init /\ [][\/ Requested(CacheRequests)
             \/ TreePipeline
             \/ CacheReadThrows
             \/ NonTreeCacheRead
             \/ NonTreeCacheReadThrows
             \/ NonTreeScrapeDone]_vars

\* ------------------------------------------------------------------- claims
TreeMode == nreq > 0 /\ params.tree
InFlightFor(u) == {t \in inflight : t.url = u}
\* a scrape of u by the current request has settled with an error
ScrapeFailed(u) ==
  site.outcome[u] = "throw" /\ scrapeCount[u] > Cardinality(InFlightFor(u))
TargetScraped == targetResult # <<>> /\ targetResult[1].success
Succeeded == pc = "idle" /\ response # <<>>

\* C1: in a tree-mode request no URL is handed to scrapeService.scrape more
\* than once, whatever the interleaving of the sub-tasks
C1_ScrapedAtMostOnce == TreeMode => \A u \in Urls : scrapeCount[u] <= 1

\* C2: once the target scrape of a tree-mode request has succeeded, the
\* request throws nothing and ends with a success response, and every
\* non-target URL whose scrape failed is in skippedUrls with a reason that
\* begins "Failed to scrape: "
C2_KinFailureAbsorbed ==
  (TreeMode /\ TargetScraped) =>
    /\ thrown = <<>>
    /\ pc = "idle" => (response # <<>> /\ response[1].success)
    /\ \A u \in Urls \ {params.url} :
         ScrapeFailed(u) => (skippedUrls[u] # <<>> /\ skippedUrls[u][1] = "Failed to scrape: ")

C2_Witness ==
  /\ TreeMode /\ TargetScraped /\ Succeeded
  /\ \E u \in Urls \ {params.url} : ScrapeFailed(u)

\* C3: when the target scrape of a tree-mode request yields no HTML, what
\* processLinksRequest throws carries a LinksErrorResponse with success=false
\* and the tree read from the cache (none if there was none)
C3_ErrorCarriesCachedTree ==
  (TreeMode /\ thrown # <<>>) =>
    /\ thrown[1].data # <<>>
    /\ ~thrown[1].data[1].success
    /\ thrown[1].data[1].tree = existingTree

\* C4: every URL of the tree a tree-mode request read from the cache is in
\* the tree it stores and returns
C4_CachedUrlsKept ==
  (TreeMode /\ existingTree # <<>> /\ finalTree # <<>>) =>
    Nodes(existingTree[1]) \subseteq Nodes(finalTree[1])

TreeEntries == {e \in kv \cup puts : e.key.options = <<>>}

\* C5 (as stated): no tree written to the cache has cleanedHtml or
\* extractedLinks on any node
C5_NoContentInCache == \A e \in TreeEntries : e.val.html = {} /\ e.val.ext = {}

\* C5 (amended): no tree written to the cache has cleanedHtml on any node,
\* while the tree a request with extractedLinks=true writes carries the
\* extractedLinks of the nodes it extracted
C5_NoCleanedHtmlInCache ==
  /\ \A e \in TreeEntries : e.val.html = {}
  /\ (TreeMode /\ params.extractedLinks) =>
       \A e \in puts : e.by = nreq => (extractedLinksMap \cap Nodes(e.val)) \subseteq e.val.ext

C5_Witness ==
  /\ TreeMode /\ Succeeded /\ params.cleanedHtml /\ params.extractedLinks
  /\ response[1].tree[1].html # {}
  /\ \E e \in kv : e.by = nreq /\ e.val.ext # {}

\* the second of two successive requests whose first had its put settled, and
\* no other put pending, when the second started
Successive == prev.id > 0 /\ prev.putDone /\ prev.quiet /\ prev.response # <<>>

SameButContent(p, q) == [p EXCEPT !.cleanedHtml = FALSE, !.metadata = FALSE]
                        = [q EXCEPT !.cleanedHtml = FALSE, !.metadata = FALSE]

\* C7: the second of two successive tree-mode requests that differ only in
\* cleanedHtml or metadata reads the tree the first stored and answers
\* cached=true; with cleanedHtml=true its tree has cleanedHtml on the target
\* node (when the cleaner yields any for the target page), the cached trees
\* have none
C7_ContentFlagsShareTree ==
  (Successive /\ TreeMode /\ prev.params.tree /\ params.cacheEnabled
     /\ SameButContent(prev.params, params) /\ pc # "cacheRead") =>
    /\ existingTree = prev.stored
    /\ linksCacheIsFresh
    /\ Succeeded =>
         /\ response[1].cached
         /\ (params.cleanedHtml /\ site.outcome[params.url] = "ok")
              => params.url \in response[1].tree[1].html
         /\ existingTree[1].html = {}
         /\ \A e \in TreeEntries : e.val.html = {}

C7_Witness ==
  /\ Successive /\ TreeMode /\ prev.params.tree /\ params.cacheEnabled
  /\ SameButContent(prev.params, params) /\ Succeeded
  /\ params.cleanedHtml /\ ~prev.params.cleanedHtml
  /\ params.url \in response[1].tree[1].html
  /\ existingTree[1].html = {}

ShapeDiffers(p, q) ==
  \/ p.folderFirst # q.folderFirst
  \/ p.linksOrder # q.linksOrder
  \/ p.extractedLinks # q.extractedLinks
  \/ p.isPlatformUrl # q.isPlatformUrl

\* C8: a tree-mode request never reads the tree cached by a request with the
\* same rootUrl that differs from it in a shape option
C8_ShapeOptionsSeparateTrees ==
  [][(pc = "cacheRead" /\ prev.id > 0 /\ prev.params.tree
        /\ RootOf(prev.params) = rootUrl /\ ShapeDiffers(prev.params, params))
      => ~(existingTree' # <<>> /\ \E e \in kv : e.by = prev.id /\ existingTree' = <<e.val>>)]_vars

\* C9: the cached flag of a tree-mode success response is true exactly when
\* the tree was merged into the tree read from the cache
C9_CachedIffReused ==
  (TreeMode /\ Succeeded) => (response[1].cached <=> treeFrom = "merge")

\* C10: two tree-mode requests with the same options on the same pages, both
\* starting from an empty cache, assemble the same tree whatever the order in
\* which their scrapes settle
C10_SameTreeInAnyOrder ==
  (TreeMode /\ Succeeded /\ prev.response # <<>> /\ prev.params = params
     /\ ~response[1].cached /\ ~prev.response[1].cached) =>
    Shape(response[1].tree[1]) = Shape(prev.response[1].tree[1])

\* the key the current request reads and writes
RequestKey ==
  IF params.tree THEN rootKeyForCache(rootUrl) ELSE getLinksNonTreeCacheKey(params, FALSE)
NoHtml(u) == site.outcome[u] \in {"throw", "empty"}
\* a response without the fields that name the request
Anonymous(r) == [r EXCEPT !.requestId = 0, !.timestamp = 0]

\* C11: a request whose cache read threw goes on as a cache-disabled request
\* does: it holds no cached tree, fails only if its target yields no HTML,
\* scrapes its target and answers cached=false with a result built from
\* scratch; after an identical request with the cache disabled it returns the
\* same URLs (tree mode) or the same response (non-tree mode)
C11_ReadFailureIsCacheMiss ==
  (nreq > 0 /\ cacheReadThrew) =>
    /\ existingTree = <<>> /\ ~linksCacheIsFresh
    /\ thrown # <<>> => NoHtml(params.url)
    /\ Succeeded =>
         /\ ~response[1].cached
         /\ scrapeCount[params.url] >= 1
         /\ params.tree => treeFrom = "build"
         /\ (prev.response # <<>> /\ prev.params = [params EXCEPT !.cacheEnabled = FALSE]) =>
              IF params.tree
              THEN Nodes(response[1].tree[1]) = Nodes(prev.response[1].tree[1])
              ELSE Anonymous(response[1]) = Anonymous(prev.response[1])

C11_Witness ==
  /\ nreq > 0 /\ cacheReadThrew /\ Succeeded /\ params.tree
  /\ \E e \in kv : e.key = RequestKey /\ e.by # nreq

C11_WitnessNonTree ==
  /\ nreq > 0 /\ cacheReadThrew /\ Succeeded /\ ~params.tree
  /\ \E e \in kv : e.key = RequestKey /\ e.by # nreq

PutOf(id) == {p \in puts : p.by = id}

\* C12: a request never waits for its cache put and the put never changes its
\* outcome: a request that has issued its put can respond whatever has become
\* of the put, and a put that settles or fails leaves the response, the error
\* and the request's position as they were
C12_PutNeverAwaited ==
  [][/\ pc = "built" => ENABLED RespondStep
     /\ (puts' # puts /\ puts' \subseteq puts)
          => (response' = response /\ thrown' = thrown /\ pc' = pc)]_vars

\* a success response is out while the request's put is still pending
C12_Witness == nreq > 0 /\ Succeeded /\ PutOf(nreq) # {}

\* C13: a scrape call never comes to hold page content that arrived while the
\* request's signal was aborted, whether the signal aborted before the call
\* started or while it was in flight, whatever the cleaningProcessor
C13_AbortHonoured == call.html => ~call.abortedAtHtml

\* C14: while fetchPage has neither returned nor thrown, its timer is armed or
\* has fired and aborted the fetch
C14_TimeoutArmed ==
  call.pc \in {"fetching", "reading"} => call.timerArmed \/ call.controllerAborted

\* C15: scrape does not fail once it holds the page's html: a failure of the
\* cleaner, of metadata extraction or of the meta files only empties its field
C15_ProcessingNeverFails ==
  /\ call.pc = "threw" => ~call.html
  /\ call.pc = "returned" => call.result[1].rawHtml

\* the pool size of section 5
DEFAULT_CONCURRENCY == 5

\* C16: a tree request never has more scrapes in flight than the concurrency
\* bound, the root, target, ancestor and descendant scrapes counted together
C16_BoundedConcurrency == TreeMode => Cardinality(inflight) <= DEFAULT_CONCURRENCY

StartedIn(kind) == {t \in started : t.kind = kind}
KinPhases == {"anc", "rdesc", "tdesc"}

OriginAllowlisted(t) ==
  \E p \in PLATFORM_URLS :
    /\ toLowerCase(p.protocol) = toLowerCase(t.protocol)
    /\ LowerHost(p.hostname) = LowerHost(t.hostname)

\* C18 as claimed: in both modes and for every combination of the options the
\* root is the target when the target's origin is in the allowlist, otherwise
\* origin(target) when subdomainAsRootUrl is set, otherwise the base-domain form
C18_RootDerivation ==
  derived # <<>> =>
    LET d == derived[1]
    IN d.rootUrl = IF OriginAllowlisted(d.target) THEN d.target
                   ELSE IF d.subdomainAsRootUrl THEN origin(d.target)
                   ELSE getRootUrl(d.target)

\* C18 amended: the root is the target when the target's origin is in the
\* allowlist or the isPlatformUrl option is set, otherwise origin(target) when
\* subdomainAsRootUrl is set, otherwise the base-domain form
C18_RootDerivationWithFlag ==
  derived # <<>> =>
    LET d == derived[1]
    IN d.rootUrl = IF OriginAllowlisted(d.target) \/ d.isPlatformUrl THEN d.target
                   ELSE IF d.subdomainAsRootUrl THEN origin(d.target)
                   ELSE getRootUrl(d.target)

\* a non-tree request with the flag set on a page of a host that is not in the
\* allowlist: the root is the page, not its origin
C18_Witness ==
  /\ derived # <<>>
  /\ derived[1].isPlatformUrl /\ ~derived[1].tree /\ ~OriginAllowlisted(derived[1].target)
  /\ derived[1].target.pathname # <<>>
  /\ derived[1].rootUrl = derived[1].target
  /\ derived[1].rootUrl # origin(derived[1].target)

\* C19: a success response has a tree exactly when the request's tree option
\* is not false, for tree requests and for non-tree requests answered by a
\* scrape or from the cache
C19_TreeIffTreeMode ==
  Succeeded => (response[1].tree # <<>> <=> params.isTree # <<FALSE>>)

\* a request without the tree option has answered with a tree after a non-tree
\* request was answered without one
C19_Witness ==
  /\ Succeeded /\ params.isTree = <<>> /\ response[1].tree # <<>>
  /\ prev.params.isTree = <<FALSE>> /\ prev.response # <<>> /\ prev.response[1].tree = <<>>

\* a non-tree request answered from the cache, without a tree
C19_WitnessCached ==
  Succeeded /\ params.isTree = <<FALSE>> /\ response[1].cached /\ response[1].tree = <<>>

IsFolder(t, c) == t.kids[c] # <<>>

\* at every level no leaf stands before a folder, and the folders and the
\* leaves are each in ascending name order
FolderFirstAlphabetical(t) ==
  \A n \in Nodes(t) :
    \A i, j \in DOMAIN t.kids[n] :
      i < j =>
        LET a == t.kids[n][i]
            b == t.kids[n][j]
        IN /\ IsFolder(t, b) => IsFolder(t, a)
           /\ (IsFolder(t, a) <=> IsFolder(t, b)) => Name(a) < Name(b)

\* C20: the tree returned to a request with folderFirst and alphabetical order
\* has, at every level, folders before leaves and each group in ascending name
\* order, whether it was built or merged into a cached tree stored under other
\* ordering options
C20_FolderFirstAlphabetical ==
  (TreeMode /\ Succeeded /\ params.folderFirst /\ params.linksOrder = "alphabetical") =>
    FolderFirstAlphabetical(response[1].tree[1])

\* the tree was merged into a tree the previous request stored in another
\* order, and a folder stands before a leaf of a smaller name
C20_Witness ==
  /\ TreeMode /\ Succeeded /\ params.folderFirst /\ params.linksOrder = "alphabetical"
  /\ treeFrom = "merge" /\ existingTree # <<>> /\ existingTree = prev.stored
  /\ ~prev.params.folderFirst
  /\ ~FolderFirstAlphabetical(existingTree[1])
  /\ \E n \in Nodes(response[1].tree[1]) :
       \E i, j \in DOMAIN response[1].tree[1].kids[n] :
         /\ i < j
         /\ Name(response[1].tree[1].kids[n][j]) < Name(response[1].tree[1].kids[n][i])

\* C21: while several links requests run at the same time, the items of one
\* batch on one context object included, the visited set, the scraped-data
\* cache, the link sets and the skipped map of a request are written by the
\* steps of that request only: a step of one call leaves the state of every
\* other call as it was.
C21_PerRequestState ==
  [][\A j \in Items : batch'.actor # j => batch'.state[StateOf(j)] = batch.state[StateOf(j)]]_vars

\* both calls are under way at once, each has visited pages of its own, and
\* the context they share holds the root key written by the later one
C21_Witness ==
  /\ \A i \in Items : batch.item[i].pc = "parallel" /\ batch.item[i].inflight # {}
  /\ \A i \in Items : batch.state[StateOf(i)].visitedUrls # {}
  /\ batch.state[StateOf(1)].visitedUrls # batch.state[StateOf(2)].visitedUrls
  /\ batch.state[StateOf(1)].linksSets # batch.state[StateOf(2)].linksSets
  /\ batch.c.linksRootKey # <<>>

\* C22: in the tree pipeline no response and no error is produced, and the
\* target-descendant phase does not start, while a parallel sub-task (root with
\* its descendants, ancestors, target) has not settled, also when a sub-task
\* ends by throwing.
C22_AggregateWait ==
  (TreeMode /\ (response # <<>> \/ thrown # <<>> \/ pc \in {"descendants", "built"}))
    => \A t \in inflight : t.kind \notin {"root", "rdesc", "anc", "target"}

C24_PlatformRootPhase ==
  LET ancestors == getAncestorPaths(params.url)
  IN (/\ TreeMode
      /\ checkIsPlatformUrl(Page(params.url), params.isPlatformUrl)
      /\ Len(ancestors) >= 2
      /\ pc # "cacheRead")
       => \E t \in started : t.kind = "root" /\ t.url = ancestors[2]

\* a tree request has succeeded with a tree built from scratch and no internal
\* link discovered
BuiltWithoutLinks == Succeeded /\ TreeMode /\ treeFrom = "build" /\ linksSets = <<>>

\* C25 (as stated): when a tree request is built from scratch and its scrapes
\* discover no internal links, the returned tree is the root node alone with
\* totalUrls = 1, for every target.
C25_RootAlone ==
  BuiltWithoutLinks =>
    (Nodes(response[1].tree[1]) = {rootUrl} /\ totalUrls(response[1].tree[1]) = 1)

\* the pages from the root down to a visited page
PathsToVisited ==
  {p \in Urls : IsPrefix(rootUrl, p)
                /\ \E v \in Urls : /\ v \in visitedUrls \/ lastVisitedUrlsInCache[v] > 0
                                  /\ IsPrefix(p, v)}

\* C25 (amended): when a tree request is built from scratch and its scrapes
\* discover no internal links, the returned tree consists of the root and of
\* the pages on the way from the root down to every visited page (scraped by
\* this request or recorded as visited in the cached tree), totalUrls counts
\* these nodes, and a target below the root is one of them.
C25_RootAndVisited ==
  BuiltWithoutLinks =>
    /\ Nodes(response[1].tree[1]) = {rootUrl} \cup PathsToVisited
    /\ totalUrls(response[1].tree[1]) = Cardinality({rootUrl} \cup PathsToVisited)
    /\ IsPrefix(rootUrl, params.url) => params.url \in Nodes(response[1].tree[1])
    /\ (totalUrls(response[1].tree[1]) = 1) => (params.url = rootUrl)

\* the target is two levels below the root, the page between them failed, and
\* the tree has three nodes
C25_Witness ==
  /\ BuiltWithoutLinks
  /\ params.url = <<1, 1>> /\ rootUrl = <<>> /\ ScrapeFailed(<<1>>)
  /\ Nodes(response[1].tree[1]) = {<<>>, <<1>>, <<1, 1>>}
  /\ totalUrls(response[1].tree[1]) = 3

\* the nodes below node n of tree t
RECURSIVE Descendants(_, _)
Descendants(t, n) ==
  UNION {{t.kids[n][i]} \cup Descendants(t, t.kids[n][i]) : i \in DOMAIN t.kids[n]}

\* C26: in every tree built by buildLinksTree from any internal links and
\* visited URLs, in any insertion order, the URL of a node is a strict
\* path-prefix of the URL of each of its descendants, and no two children of
\* a node have the same URL.
C26_TreeWellFormed ==
  derived # <<>> =>
    LET t == derived[1].tree
    IN \A n \in Nodes(t) :
         /\ \A d \in Descendants(t, n) : IsStrictPrefix(n, d)
         /\ \A i, j \in DOMAIN t.kids[n] : i # j => t.kids[n][i] # t.kids[n][j]

\* a deep link is inserted before its parent, which is a link as well, next
\* to a visited page that is no link: the tree has three levels
C26_Witness ==
  /\ derived # <<>>
  /\ derived[1].internalLinks = << <<1, 1, 1>>, <<1, 1>>, <<1>> >>
  /\ derived[1].rootUrl = <<>>
  /\ derived[1].visited[<<2, 1>>] = 1
  /\ Descendants(derived[1].tree, <<>>) = {<<1>>, <<1, 1>>, <<1, 1, 1>>, <<2>>, <<2, 1>>}
  /\ Len(derived[1].tree.kids[<<1>>]) = 1

\* C27: for every scrape issued while a links request is processed, in tree
\* and in non-tree mode, fetching of robots.txt and sitemap.xml is enabled only
\* if the scraped URL is the rootURL of the request.
C27_MetaFilesOnlyForRoot ==
  \A t \in started : (t.robots \/ t.sitemapXML) => t.url = rootUrl

\* C28: at every suspension point of a tree request a URL is in the visited
\* set if and only if it has an entry in the scraped-data cache and an entry in
\* the visited-timestamps map, the entry of a visited URL is a value, and a URL
\* whose scrape failed is in none of the three.
C28_VisitedConsistent ==
  TreeMode =>
    \A u \in Urls :
      /\ u \in visitedUrls <=> (scrapedDataCache[u] # <<>> /\ visitedUrlsTimestamps[u] > 0)
      /\ u \notin visitedUrls => (scrapedDataCache[u] = <<>> /\ visitedUrlsTimestamps[u] = 0)
      /\ (skippedUrls[u] = ScrapeSkipReason(ErrorMessage))
           => (u \notin visitedUrls /\ scrapedDataCache[u] = <<>> /\ visitedUrlsTimestamps[u] = 0)

\* the target scrape of the current request has failed
TargetFailed ==
  \/ params.tree /\ targetResult # <<>> /\ ~targetResult[1].success
  \/ ~params.tree /\ thrown # <<>>

\* C29: a links request, tree or non-tree, whose target scrape fails issues no
\* cache put: none of its own is pending and nothing in the store is its own,
\* so the value under its cache key is not changed by it.
C29_NoPutOnTargetFailure ==
  (nreq > 0 /\ TargetFailed) => \A e \in puts \cup kv : e.by # nreq

\* the second request has failed on its target while the store holds the tree
\* the first request put under the same key
C29_Witness ==
  /\ nreq = 2 /\ TreeMode /\ TargetFailed /\ pc = "idle" /\ thrown # <<>>
  /\ params.cacheEnabled
  /\ \E e \in kv : e.key = rootKeyForCache(rootUrl) /\ e.by = 1

\* the URLs recorded as visited in the cached tree
CachedVisited ==
  IF existingTree = <<>> THEN {}
  ELSE {u \in Urls : extractVisitedUrlsFromTree(existingTree[1])[u] > 0}

\* the kin a request without platform mode comes to: the ancestors, the root
\* with its descendants when the target lies below it, the descendants of the
\* target when it is the root, each list cut at the limit
KinReached ==
  LET below(u) == Range(Take(getDescendantPaths(u,
                         Range(extractLinksFromHtml(ScrapedData(u).links, rootUrl, FALSE))),
                         MAX_KIN_LIMIT))
      anc == Range(Take(SelectSeq(getAncestorPaths(params.url), LAMBDA u : u # rootUrl),
                        MAX_KIN_LIMIT))
  IN anc \cup (IF params.url # rootUrl
               THEN {rootUrl} \cup (IF site.outcome[rootUrl] # "throw" THEN below(rootUrl) ELSE {})
               ELSE below(params.url))

\* C30: in a tree request with a cache hit and without cleanedHtml no root,
\* ancestor or descendant URL recorded as visited in the cached tree is
\* fetched, while the target is always fetched; with cleanedHtml or after a
\* cache miss no kin is left out on account of the cache: every kin the request
\* comes to has been scraped when it responds.
C30_CacheSkipsKinOnly ==
  TreeMode =>
    /\ (linksCacheIsFresh /\ ~params.cleanedHtml)
         => \A t \in started : t.kind # "target" => t.url \notin CachedVisited
    /\ (pc \in {"parallel", "descendants", "built"} \/ Succeeded)
         => \E t \in started : t.kind = "target" /\ t.url = params.url
    /\ (Succeeded /\ (params.cleanedHtml \/ ~linksCacheIsFresh))
         => \A u \in KinReached : scrapeCount[u] >= 1

\* after a cache hit without cleanedHtml a kin the cached tree has as visited
\* was left out and the target, visited in the cached tree as well, was fetched
C30_Witness ==
  /\ TreeMode /\ Succeeded /\ linksCacheIsFresh /\ ~params.cleanedHtml
  /\ \E u \in KinReached \cap CachedVisited : scrapeCount[u] = 0
  /\ params.url \in CachedVisited /\ scrapeCount[params.url] >= 1

\* after a cache hit with cleanedHtml a kin the cached tree has as visited was
\* scraped again
C30_WitnessCleanedHtml ==
  /\ TreeMode /\ Succeeded /\ linksCacheIsFresh /\ params.cleanedHtml
  /\ \E u \in KinReached \cap CachedVisited : scrapeCount[u] >= 1

\* C31: in a tree request with a cache hit, a kin that processKinLinks has
\* scraped with success and that the cached tree does not have as visited has
\* its links extracted and merged into the link sets of the request
C31_NewKinLinksMerged ==
  (TreeMode /\ linksCacheIsFresh /\ pc # "cacheRead") =>
    \A t \in started :
      (/\ t.kind \in KinPhases
       /\ t.url \notin CachedVisited
       /\ InFlightFor(t.url) = {}
       /\ site.outcome[t.url] \in {"ok", "uncleaned"})
        => Range(extractLinksFromHtml(site.links[t.url], rootUrl,
                   checkIsPlatformUrl(Page(params.url), params.isPlatformUrl)))
             \subseteq Range(linksSets)

\* the current request read the tree cache before the put of the request
\* before it had settled, and that put has settled since: the two ran
\* concurrently on one tree key, and the put of the current request is the
\* only one pending
Racing ==
  /\ TreeMode /\ prev.id > 0 /\ prev.params.tree
  /\ ~linksCacheIsFresh /\ ~cacheReadThrew
  /\ \E e \in kv : e.by = prev.id /\ e.key = rootKeyForCache(rootUrl)
  /\ puts # {} /\ \A p \in puts : p.by = nreq /\ p.key = rootKeyForCache(rootUrl)

\* C32: when the second put of two concurrent tree requests with one tree key
\* completes, the stored tree contains every URL of the tree the other
\* request had stored (and every URL of its own)
C32_ConcurrentPutsKeepUrls ==
  [][(Racing /\ puts' = {} /\ kv' # kv) =>
       \A e \in kv, f \in kv' :
         (e.key = rootKeyForCache(rootUrl) /\ f.key = e.key) =>
           /\ Nodes(e.val) \subseteq Nodes(f.val)
           /\ f.by = nreq /\ Nodes(finalTree[1]) \subseteq Nodes(f.val)]_vars

\* C33: every tree pass of a request is given the same platform flag, the
\* result of checkIsPlatformUrl for the target and the flag of the user
C33_SamePlatformFlag ==
  \A i \in DOMAIN derived :
    derived[i].tree =>
      /\ derived[i].firstPass
           = <<checkIsPlatformUrl(derived[i].target, derived[i].isPlatformUrl)>>
      /\ derived[i].secondPass # <<>> => derived[i].secondPass = derived[i].firstPass

C35_OneResultPerItem ==
  batch.run.pc = "done" =>
    LET r == batch.run
        out == r.response[1]
    IN /\ out.success
       /\ Len(out.results) = Len(r.items)
       /\ \A k \in DOMAIN r.items :
            /\ out.results[k].id = r.items[k].id
            /\ out.results[k].success = ~r.items[k].throws
       /\ out.totalItems = Len(r.items)
       /\ out.successfulItems + out.failedItems = out.totalItems
       /\ out.failedItems = Cardinality({k \in DOMAIN r.items : r.items[k].throws})

\* a parallel batch of more than one chunk has ended with a failed item between
\* two successful ones
C35_Witness ==
  /\ batch.run.pc = "done" /\ batch.run.parallel
  /\ Len(batch.run.items) = 3 /\ batch.run.maxConcurrency = 2
  /\ batch.run.items[2].throws /\ ~batch.run.items[1].throws /\ ~batch.run.items[3].throws
  /\ batch.run.response[1].failedItems = 1

\* C36: in parallel mode no more than maxConcurrency items are in processing
\* at the same time, an item starts only when no item of an earlier chunk is
\* still in processing, and the batch ends when the processing of every item
\* ends
C36_ChunkedAndTerminates ==
  /\ [](batch.run.parallel => Cardinality(batch.run.running) <= batch.run.maxConcurrency)
  /\ [][(batch.run.parallel /\ batch.run.pc = "run"
           /\ batch'.run.running \ batch.run.running # {})
          => /\ Cardinality(batch.run.running) = 1
             /\ batch'.run.running \cap batch.run.running = {}
             /\ \A i \in batch'.run.running : \A j \in 1 .. (i - 1) :
                  j \in batch'.run.running \/ batch'.run.settled[j] # <<>>]_vars
  /\ (batch.run.pc = "run" ~> batch.run.pc = "done")

\* the second chunk of a parallel batch is in processing after the first has
\* settled
C36_Witness ==
  /\ batch.run.pc = "run" /\ batch.run.parallel
  /\ batch.run.maxConcurrency = 2 /\ batch.run.running = {3}
  /\ batch.run.settled[1] # <<>> /\ batch.run.settled[2] # <<>>

\* C37: browserRenderWithRetry makes at most maxRetries + 1 attempts, starts
\* none after one has succeeded and returns the result of that attempt; when
\* every attempt has failed it ends by throwing the error of the last attempt
C37_BoundedRetry ==
  /\ [](call.kind = "render" =>
          /\ call.attempt + 1 <= call.maxRetries + 1
          /\ \A a \in call.succeeded : a = call.attempt
          /\ call.pc = "returned" => (call.succeeded = {call.attempt}
                                      /\ call.result = <<call.attempt>>)
          /\ call.pc = "threw" => (call.succeeded = {} /\ call.attempt = call.maxRetries
                                   /\ call.error = <<call.maxRetries>>))
  /\ (call.kind = "render" ~> call.pc \in {"returned", "threw"})

\* the third attempt of a call with two retries has succeeded and is returned
C37_Witness ==
  /\ call.kind = "render" /\ call.pc = "returned"
  /\ call.maxRetries = 2 /\ call.attempt = 2 /\ call.result = <<2>>

C39_LateResponseIgnored ==
  [][\A f \in auth.calls :
       (auth'.calls = auth.calls \ {f} /\ f.key # auth.apiKey)
         => /\ auth'.session = auth.session
            /\ auth'.apiKey = auth.apiKey
            /\ auth'.stored = auth.stored]_vars

====
